---------------------------- MODULE Spec2Model ----------------------------
(***************************************************************************)
(* A model of the orbitr backend core: the compliance workflow state       *)
(* machine (services/workflow.py, api/workflows.py) and the event router   *)
(* (agents/supervisor.py).                                                 *)
(*                                                                         *)
(* Specifications:                                                         *)
(*   Spec        the workflow store under sequential callers: every        *)
(*               handler runs from its query to its commit in one step.    *)
(*   SpecConc    the same store under concurrent advance calls: each call  *)
(*               is a read of the record, then a commit of the values      *)
(*               computed from what was read (no lock, no version check).  *)
(*   SpecRouter  the router applied to events drawn from bounded sets.     *)
(*   SpecPipeline  one run of the agent pipeline (graph/workflow.py):      *)
(*               normalizer, supervisor, experts, insight, audit.          *)
(*   SpecDispatch  the dispatcher applied to checker lists drawn from      *)
(*               bounded sets.                                             *)
(*   SpecFinalize  the audit finalizer applied to findings lists drawn     *)
(*               from bounded sets.                                        *)
(***************************************************************************)
EXTENDS Integers, Sequences, FiniteSets, TLC

VARIABLES
    db,          \* the workflows table: workflow_id -> WorkflowRecord row
    templates,   \* the module-level WORKFLOW_TEMPLATES dict
    now,         \* the wall clock read by datetime.utcnow()
    response,    \* what the last handler call returned or raised
    sessions,    \* SpecConc: per caller, the row its session has loaded
    event,       \* SpecRouter: the event handed to the router
    routed,      \* SpecRouter: the router's partial state update
    state,       \* pipeline: the merged WorkflowState of the run
    node,        \* pipeline: the graph node that runs next
    update,      \* pipeline: the partial update the last node returned
    env,         \* pipeline: what the collaborators answered in this run
    calls,       \* pipeline: how often each collaborator was called
    trigger,     \* SpecTrigger: an event dict and what the detector returned
    event_queue, \* SpecQueue: the EventPriorityQueue, its list and counters
    qcall,       \* SpecQueue: the last call on the queue and its result
    validation   \* SpecValidate: a validate_response call and its result

wfVars == <<db, templates, now, response>>
concVars == <<sessions>>
routerVars == <<event, routed>>
pipeVars == <<state, node, update, env, calls>>
trigVars == <<trigger>>
queueVars == <<event_queue, qcall>>
guardVars == <<validation>>
svcVars == <<trigVars, queueVars, guardVars>>
vars == <<db, templates, now, response, sessions, event, routed,
          state, node, update, env, calls, trigger, event_queue, qcall,
          validation>>

(***************************************************************************)
(* Bounds and input sets.                                                  *)
(***************************************************************************)
\* The clock takes the values 0 .. MaxTime.
MaxTime == 1

\* Python's None.
None == "None"

\* The uuid4 values create_workflow can draw.
WorkflowIds == {"wf-1", "wf-2"}

\* actor_id arguments: absent, and a named actor.
Actors == {None, "alice"}

\* reason arguments of reject_workflow (its default).
ReasonInputs == {"Rejected by admin"}

\* correlation_id and requester_id arguments of create_workflow.
CorrelationInputs == {"corr-1"}
RequesterInputs == {"alice"}

(***************************************************************************)
(* services/workflow.py: statuses and templates.                           *)
(***************************************************************************)
PENDING == "pending"
IN_PROGRESS == "in_progress"
AWAITING_APPROVAL == "awaiting_approval"
APPROVED == "approved"
REJECTED == "rejected"
COMPLETED == "completed"
ESCALATED == "escalated"
EXPIRED == "expired"

WorkflowStatus ==
    {PENDING, IN_PROGRESS, AWAITING_APPROVAL, APPROVED, REJECTED, COMPLETED,
     ESCALATED, EXPIRED}

\* The step dicts of a template: the keys completed_at and completed_by are
\* not there until the step is stamped.
Step(name, required_action, auto) ==
    [name |-> name, required_action |-> required_action, auto |-> auto]
ConditionalStep(name, required_action, auto, condition) ==
    [name |-> name, required_action |-> required_action, auto |-> auto,
     condition |-> condition]

WORKFLOW_TEMPLATES ==
    [change_approval |->
        [steps |-> <<Step("request_submitted", "submit", TRUE),
                     Step("risk_assessment", "assess", TRUE),
                     Step("manager_approval", "approve", FALSE),
                     ConditionalStep("cab_review", "review", FALSE,
                                     "high_risk"),
                     Step("implementation", "implement", TRUE),
                     Step("verification", "verify", TRUE)>>,
         timeout_hours |-> 72, escalation_hours |-> 24],
     access_review |->
        [steps |-> <<Step("access_requested", "request", TRUE),
                     Step("identity_verification", "verify", TRUE),
                     Step("manager_approval", "approve", FALSE),
                     ConditionalStep("security_review", "review", FALSE,
                                     "privileged"),
                     Step("access_granted", "grant", TRUE)>>,
         timeout_hours |-> 48, escalation_hours |-> 12],
     incident_response |->
        [steps |-> <<Step("incident_detected", "detect", TRUE),
                     Step("triage", "triage", TRUE),
                     Step("investigation", "investigate", FALSE),
                     Step("containment", "contain", FALSE),
                     Step("remediation", "remediate", FALSE),
                     Step("post_mortem", "review", FALSE)>>,
         timeout_hours |-> 168, escalation_hours |-> 4]]

\* workflow_type arguments: the registered names and one that is not.
TypeInputs == DOMAIN WORKFLOW_TEMPLATES \cup {"vendor_onboarding"}

\* action arguments: every required_action of a template and one of none.
ActionInputs ==
    UNION {{WORKFLOW_TEMPLATES[t].steps[i].required_action :
               i \in DOMAIN WORKFLOW_TEMPLATES[t].steps} :
           t \in DOMAIN WORKFLOW_TEMPLATES} \cup {"wrong_action"}

(***************************************************************************)
(* Strings whose characters the code inspects are sequences of one-letter  *)
(* strings.                                                                *)
(***************************************************************************)
\* str.lower() on one character and on a string.
LowerChar(c) ==
    CASE c = "A" -> "a"
      [] c = "B" -> "b"
      [] c = "C" -> "c"
      [] c = "D" -> "d"
      [] c = "E" -> "e"
      [] c = "F" -> "f"
      [] c = "G" -> "g"
      [] c = "H" -> "h"
      [] c = "I" -> "i"
      [] c = "J" -> "j"
      [] c = "K" -> "k"
      [] c = "L" -> "l"
      [] c = "M" -> "m"
      [] c = "N" -> "n"
      [] c = "O" -> "o"
      [] c = "P" -> "p"
      [] c = "Q" -> "q"
      [] c = "R" -> "r"
      [] c = "S" -> "s"
      [] c = "T" -> "t"
      [] c = "U" -> "u"
      [] c = "V" -> "v"
      [] c = "W" -> "w"
      [] c = "X" -> "x"
      [] c = "Y" -> "y"
      [] c = "Z" -> "z"
      [] OTHER -> c

Lower(s) == [i \in DOMAIN s |-> LowerChar(s[i])]

\* kw in s: s has kw as a contiguous substring.
Contains(s, kw) ==
    \E i \in 1..(Len(s) - Len(kw) + 1) : SubSeq(s, i, i + Len(kw) - 1) = kw

\* any(kw in s for kw in kws)
ContainsAny(s, kws) == \E kw \in kws : Contains(s, kw)

\* The elements of a list.
Range(list) == {list[i] : i \in DOMAIN list}

(***************************************************************************)
(* models/events.py: Severity, Domain.  agents/supervisor.py: the router.  *)
(***************************************************************************)
Severity == {"Low", "Medium", "High", "Critical"}
Domain == {"Security", "Compliance", "Financial", "Infrastructure", "Unknown"}

\* A key an event dict does not hold.
Missing == "<missing>"

\* Events handed to the router: event types in mixed case with and without
\* routing keywords, declared and undeclared domain and severity strings, a
\* missing key, and no event at all.
NoEvent == [event_type |-> <<>>, domain |-> "<no event>", severity |-> Missing]

EventTypeInputs ==
    {<<"S", "e", "c", "r", "e", "t", "D", "e", "t", "e", "c", "t", "e", "d">>,
     <<"d", "i", "s", "k", "_", "f", "u", "l", "l">>,
     <<"c", "o", "s", "t", "_", "s", "p", "i", "k", "e">>,
     <<"a", "u", "t", "o", "s", "c", "a", "l", "e", "_", "u", "p">>,
     <<"U", "s", "e", "r", "L", "o", "g", "i", "n">>,
     <<"s", "s", "h", "_", "a", "c", "c", "e", "s", "s">>,
     <<"p", "o", "l", "i", "c", "y", "_", "u", "p", "d", "a", "t", "e">>,
     <<>>,
     <<"u", "n", "k", "n", "o", "w", "n">>,
     <<"B", "i", "l", "l", "i", "n", "g", "_", "R", "u", "n">>,
     <<"C", "P", "U", "_", "m", "e", "t", "r", "i", "c">>,
     <<"p", "e", "r", "m", "i", "s", "s", "i", "o", "n", "_", "c", "h", "a", "n", "g", "e">>,
     <<Missing>>}

DomainInputs == Domain \cup {"security", "", Missing}

SeverityInputs == Severity \cup {"critical", "", Missing}

EventInputs ==
    [event_type : EventTypeInputs, domain : DomainInputs,
     severity : SeverityInputs] \cup {NoEvent}

\* utils/event_helpers.py: get_event_type, get_event_severity,
\* get_event_domain with their defaults.
get_event_type(ev) ==
    IF ev.event_type = <<Missing>> THEN <<"u", "n", "k", "n", "o", "w", "n">> ELSE ev.event_type
get_event_severity(ev) ==
    IF ev.severity = Missing THEN "Medium" ELSE ev.severity
get_event_domain(ev) ==
    IF ev.domain = Missing THEN "infrastructure" ELSE ev.domain

\* Domain(domain_str) if domain_str else INFRASTRUCTURE, ValueError caught.
ToDomain(domain_str) ==
    IF domain_str \in Domain THEN domain_str ELSE "Infrastructure"

\* Severity(severity_str) if severity_str else MEDIUM, ValueError caught.
ToSeverity(severity_str) ==
    IF severity_str \in Severity THEN severity_str ELSE "Medium"

SecurityKeywords ==
    {<<"a", "c", "c", "e", "s", "s">>, <<"a", "u", "t", "h">>,
     <<"l", "o", "g", "i", "n">>,
     <<"s", "e", "c", "u", "r", "i", "t", "y">>, <<"s", "s", "h">>,
     <<"p", "e", "r", "m", "i", "s", "s", "i", "o", "n">>}
FinancialKeywords ==
    {<<"f", "i", "n", "a", "n", "c", "i", "a", "l">>,
     <<"c", "o", "s", "t">>, <<"b", "i", "l", "l", "i", "n", "g">>,
     <<"p", "a", "y", "m", "e", "n", "t">>,
     <<"r", "e", "c", "o", "n", "c", "i", "l", "i", "a", "t", "i", "o", "n">>}
InfrastructureKeywords ==
    {<<"m", "e", "t", "r", "i", "c">>, <<"s", "y", "s", "t", "e", "m">>,
     <<"c", "p", "u">>, <<"m", "e", "m", "o", "r", "y">>,
     <<"d", "i", "s", "k">>, <<"h", "e", "a", "l", "t", "h">>,
     <<"s", "c", "a", "l", "i", "n", "g">>,
     <<"r", "e", "s", "o", "u", "r", "c", "e">>}
CostScalingKeywords ==
    {<<"c", "o", "s", "t">>, <<"s", "c", "a", "l", "e">>,
     <<"a", "u", "t", "o", "s", "c", "a", "l">>}

\* Mutation: the security group appends its two names in the other order.
SecurityGroupSwapped(domain, event_type) ==
    IF domain = "Security" \/ ContainsAny(event_type, SecurityKeywords)
    THEN <<"compliance_sentinel", "security_watchdog">>
    ELSE <<>>

\* The four condition groups, each the names it appends.
SecurityGroup(domain, event_type) ==
    IF domain = "Security" \/ ContainsAny(event_type, SecurityKeywords)
    THEN <<"security_watchdog", "compliance_sentinel">>
    ELSE <<>>

FinancialGroup(domain, event_type) ==
    IF domain = "Financial" \/ ContainsAny(event_type, FinancialKeywords)
    THEN <<"cost_analyst", "compliance_sentinel">>
    ELSE <<>>

\* Mutation: the resource checker under a name the registry does not have.
InfrastructureGroupUnregistered(domain, event_type) ==
    IF domain = "Infrastructure"
       \/ ContainsAny(event_type, InfrastructureKeywords)
    THEN <<"infrastructure_monitor", "resource_monitor", "anomaly_detector">>
    ELSE <<>>

InfrastructureGroup(domain, event_type) ==
    IF domain = "Infrastructure"
       \/ ContainsAny(event_type, InfrastructureKeywords)
    THEN <<"infrastructure_monitor", "resource_watcher", "anomaly_detector">>
    ELSE <<>>

CostScalingGroup(event_type) ==
    IF ContainsAny(event_type, CostScalingKeywords)
    THEN <<"cost_analyst", "infrastructure_monitor">>
    ELSE <<>>

\* Mutation: only Critical, not High, forces the two names.
HighSeverityCriticalOnly(agents, severity) ==
    IF severity = "Critical"
    THEN LET a1 == IF "security_watchdog" \notin Range(agents)
                   THEN Append(agents, "security_watchdog") ELSE agents
         IN  IF "compliance_sentinel" \notin Range(a1)
             THEN Append(a1, "compliance_sentinel") ELSE a1
    ELSE agents

\* High severity: append the two names that are not yet in the list.
HighSeverity(agents, severity) ==
    IF severity \in {"High", "Critical"}
    THEN LET a1 == IF "security_watchdog" \notin Range(agents)
                   THEN Append(agents, "security_watchdog") ELSE agents
         IN  IF "compliance_sentinel" \notin Range(a1)
             THEN Append(a1, "compliance_sentinel") ELSE a1
    ELSE agents

\* Mutation: the default names in another order.
DefaultCoverageReordered(agents) ==
    IF agents = <<>>
    THEN <<"security_watchdog", "anomaly_detector", "compliance_sentinel">>
    ELSE agents

\* Default: basic coverage for an empty list.
DefaultCoverage(agents) ==
    IF agents = <<>>
    THEN <<"security_watchdog", "compliance_sentinel", "anomaly_detector">>
    ELSE agents

\* [x for x in agents if not (x in seen or seen.add(x))]
RECURSIVE RemoveDuplicatesFrom(_, _)
RemoveDuplicatesFrom(agents, seen) ==
    IF agents = <<>> THEN <<>>
    ELSE IF Head(agents) \in seen
    THEN RemoveDuplicatesFrom(Tail(agents), seen)
    ELSE <<Head(agents)>> \o
         RemoveDuplicatesFrom(Tail(agents), seen \cup {Head(agents)})

\* Mutation: the list is returned as accumulated.
KeepDuplicates(agents) == agents

RemoveDuplicates(agents) == RemoveDuplicatesFrom(agents, {})

\* agents_to_run of supervisor_agent for a present event.
Route(ev) ==
    LET domain == ToDomain(get_event_domain(ev))
        event_type == Lower(get_event_type(ev))
        severity == ToSeverity(get_event_severity(ev))
        groups == SecurityGroup(domain, event_type)
                  \o FinancialGroup(domain, event_type)
                  \o InfrastructureGroup(domain, event_type)
                  \o CostScalingGroup(event_type)
    IN  RemoveDuplicates(DefaultCoverage(HighSeverity(groups, severity)))

\* The partial state update supervisor_agent returns: keys are the keys of
\* the returned dict (timestamps and durations of the log entry left out).
supervisor_agent(ev) ==
    IF ev = NoEvent
    THEN [keys |-> {"agents_completed"},
          agents_to_run |-> <<>>,
          audit_log |-> <<>>,
          agents_completed |-> <<"supervisor">>]
    ELSE [keys |-> {"agents_to_run", "audit_log", "agents_completed"},
          agents_to_run |-> Route(ev),
          audit_log |->
            <<[step |-> "Routing", agent |-> "supervisor",
               domain |-> ToDomain(get_event_domain(ev)),
               severity |-> ToSeverity(get_event_severity(ev)),
               routed_to |-> Route(ev)]>>,
          agents_completed |-> <<"supervisor">>]

\* No update yet for the current event.
NotRouted ==
    [keys |-> {}, agents_to_run |-> <<>>, audit_log |-> <<>>,
     agents_completed |-> <<>>]

\* The next event arrives once the router is done with the current one.
Ingest(ev) ==
    /\ routed # NotRouted
    /\ event' = ev
    /\ routed' = NotRouted
    /\ UNCHANGED <<wfVars, concVars, pipeVars, svcVars>>

\* The supervisor node runs on the current event.
SupervisorAgent ==
    /\ routed = NotRouted
    /\ routed' = supervisor_agent(event)
    /\ UNCHANGED event
    /\ UNCHANGED <<wfVars, concVars, pipeVars, svcVars>>

(***************************************************************************)
(* services/workflow.py: WorkflowStateMachine.                             *)
(***************************************************************************)
\* What a handler call gave back: it returned a workflow, returned None or
\* raised; committed says whether db.commit() ran.
Returned(op, committed) ==
    [op |-> op, outcome |-> "workflow", committed |-> committed]
ReturnedNone(op) ==
    [op |-> op, outcome |-> "None", committed |-> FALSE]
Raised(op, exception) ==
    [op |-> op, outcome |-> exception, committed |-> FALSE]

\* d[key] = value on a Python dict.
DictSet(d, key, value) ==
    [k \in DOMAIN d \cup {key} |-> IF k = key THEN value ELSE d[k]]

\* Python truthiness of an optional string argument (if actor_id:).
Truthy(x) == x \notin {None, ""}

\* datetime.utcnow().timestamp(): each call reads the clock, which then
\* moves on; readings after the MaxTime-th are not told apart.
utcnow == now
ClockRead == IF now < MaxTime THEN now + 1 ELSE now

\* Mutation: an unknown type falls back to a default template.
GetTemplateOrDefault(workflow_type) ==
    IF workflow_type \in DOMAIN templates THEN {templates[workflow_type]}
    ELSE {templates["change_approval"]}

\* WORKFLOW_TEMPLATES.get(workflow_type): the set holding the template, empty
\* for None.
GetTemplate(workflow_type) ==
    IF workflow_type \in DOMAIN templates THEN {templates[workflow_type]}
    ELSE {}

\* Mutation: the new row starts in_progress, its first step being auto.
NewRecordInProgress(workflow_id, workflow_type, correlation_id, requester_id, steps, t) ==
    [workflow_id |-> workflow_id,
     workflow_type |-> workflow_type,
     correlation_id |-> correlation_id,
     status |-> IN_PROGRESS,
     created_at |-> t,
     updated_at |-> t,
     requester_id |-> requester_id,
     approver_id |-> None,
     current_step |-> 0,
     steps |-> steps,
     metadata |-> <<>>]

\* The WorkflowRecord row create_workflow adds: the template's step list,
\* step 0, status pending, approver_id left to the column default, no
\* metadata passed.
NewRecord(workflow_id, workflow_type, correlation_id, requester_id, steps, t) ==
    [workflow_id |-> workflow_id,
     workflow_type |-> workflow_type,
     correlation_id |-> correlation_id,
     status |-> PENDING,
     created_at |-> t,
     updated_at |-> t,
     requester_id |-> requester_id,
     approver_id |-> None,
     current_step |-> 0,
     steps |-> steps,
     metadata |-> <<>>]

\* Mutation: the comparison with the step's required_action left out.
ActionMatchesUngated(record, action) == TRUE

\* steps[record.current_step]["required_action"] == action (the list is
\* 0-indexed in the code and 1-indexed here).
ActionMatches(record, action) ==
    record.steps[record.current_step + 1].required_action = action

\* Mutation: the auto flag of the next step read the wrong way round.
NewStatusAutoInverted(steps, new_step) ==
    IF new_step >= Len(steps) THEN COMPLETED
    ELSE IF steps[new_step + 1].auto THEN AWAITING_APPROVAL
    ELSE IN_PROGRESS

\* The status of a workflow that moves to step new_step.
NewStatus(steps, new_step) ==
    IF new_step >= Len(steps) THEN COMPLETED
    ELSE IF steps[new_step + 1].auto THEN IN_PROGRESS
    ELSE AWAITING_APPROVAL

\* steps[i]["completed_at"] = now; steps[i]["completed_by"] = actor_id.
StampStep(steps, i, t, actor_id) ==
    [steps EXCEPT ![i + 1] =
        DictSet(DictSet(@, "completed_at", t), "completed_by", actor_id)]

\* The row advance_workflow commits when the action matches.
AdvancedRecord(record, actor_id, t) ==
    LET steps == StampStep(record.steps, record.current_step, t, actor_id)
        new_step == record.current_step + 1
    IN  [record EXCEPT
            !.current_step = new_step,
            !.updated_at = t,
            !.status = NewStatus(steps, new_step),
            !.steps = steps,
            !.approver_id = IF Truthy(actor_id) THEN actor_id ELSE @]

\* create_workflow(workflow_type, correlation_id, requester_id): an unknown
\* type raises ValueError before anything is stored; workflow_id is the
\* uuid4 drawn, which no stored row has.
CreateWorkflow(workflow_id, workflow_type, correlation_id, requester_id) ==
    /\ IF GetTemplate(workflow_type) = {}
       THEN /\ response' = Raised("create_workflow", "ValueError")
            /\ UNCHANGED <<db, now>>
       ELSE LET template == CHOOSE x \in GetTemplate(workflow_type) : TRUE
                record == NewRecord(workflow_id, workflow_type,
                                    correlation_id, requester_id,
                                    template.steps, utcnow)
            IN  /\ workflow_id \notin DOMAIN db
                /\ db' = [w \in DOMAIN db \cup {workflow_id} |->
                              IF w = workflow_id THEN record ELSE db[w]]
                /\ now' = ClockRead
                /\ response' = Returned("create_workflow", TRUE)
    /\ UNCHANGED templates
    /\ UNCHANGED <<concVars, routerVars, pipeVars, svcVars>>

\* advance_workflow(workflow_id, action, actor_id).
AdvanceWorkflow(workflow_id, action, actor_id) ==
    /\ IF workflow_id \notin DOMAIN db
       THEN /\ response' = ReturnedNone("advance_workflow")
            /\ UNCHANGED <<db, now>>
       ELSE LET record == db[workflow_id]
            IN  IF record.current_step >= Len(record.steps)
                THEN \* steps[record.current_step] is out of range
                     /\ response' = Raised("advance_workflow", "IndexError")
                     /\ UNCHANGED <<db, now>>
                ELSE IF ~ActionMatches(record, action)
                THEN /\ response' = Returned("advance_workflow", FALSE)
                     /\ UNCHANGED <<db, now>>
                ELSE /\ db' = [db EXCEPT ![workflow_id] =
                                   AdvancedRecord(record, actor_id, utcnow)]
                     /\ now' = ClockRead
                     /\ response' = Returned("advance_workflow", TRUE)
    /\ UNCHANGED templates
    /\ UNCHANGED <<concVars, routerVars, pipeVars, svcVars>>

\* api/workflows.py reject_workflow(workflow_id, reason, actor_id).
RejectedRecord(record, reason, actor_id, t) ==
    [record EXCEPT
        !.status = REJECTED,
        !.metadata = DictSet(DictSet(@, "rejected_reason", reason),
                             "rejected_by",
                             IF Truthy(actor_id) THEN actor_id ELSE "admin"),
        !.updated_at = t]

RejectWorkflow(workflow_id, reason, actor_id) ==
    /\ IF workflow_id \notin DOMAIN db
       THEN /\ response' = Raised("reject_workflow", "HTTPException")
            /\ UNCHANGED <<db, now>>
       ELSE /\ db' = [db EXCEPT ![workflow_id] =
                          RejectedRecord(@, reason, actor_id, utcnow)]
            /\ now' = ClockRead
            /\ response' = Returned("reject_workflow", TRUE)
    /\ UNCHANGED templates
    /\ UNCHANGED <<concVars, routerVars, pipeVars, svcVars>>

\* The number of forced advances the model follows past the last step.
MaxOverrun == 1

\* The stamp force_advance_workflow puts on steps[record.current_step] when
\* that index is in range: a truthy comment is stored with it.
ForceStampStep(steps, i, t, actor_id, comment) ==
    IF i < Len(steps)
    THEN LET stamped == StampStep(steps, i, t, actor_id)
         IN  IF Truthy(comment)
             THEN [stamped EXCEPT ![i + 1] = DictSet(@, "comment", comment)]
             ELSE stamped
    ELSE steps

\* The row force_advance_workflow commits: the required action is not looked
\* at and current_step is not compared with the number of steps before the
\* increment.
ForceAdvancedRecord(record, actor_id, comment, t) ==
    LET steps == ForceStampStep(record.steps, record.current_step, t,
                                actor_id, comment)
        new_step == record.current_step + 1
    IN  [record EXCEPT
            !.current_step = new_step,
            !.updated_at = t,
            !.status = NewStatus(steps, new_step),
            !.steps = steps,
            !.approver_id = actor_id]

\* api/workflows.py force_advance_workflow(workflow_id, actor_id, comment),
\* as called by the advance, approve and unblock endpoints (None becomes a
\* 404 there).
ForceAdvanceWorkflow(workflow_id, actor_id, comment) ==
    /\ IF workflow_id \notin DOMAIN db
       THEN /\ response' = ReturnedNone("force_advance_workflow")
            /\ UNCHANGED <<db, now>>
       ELSE /\ db[workflow_id].current_step <
                   Len(db[workflow_id].steps) + MaxOverrun
            /\ db' = [db EXCEPT ![workflow_id] =
                          ForceAdvancedRecord(@, actor_id, comment, utcnow)]
            /\ now' = ClockRead
            /\ response' = Returned("force_advance_workflow", TRUE)
    /\ UNCHANGED templates
    /\ UNCHANGED <<concVars, routerVars, pipeVars, svcVars>>

\* The row reset_workflow commits: current_step, status, metadata and
\* updated_at are assigned, steps_json and approver_id are not.
ResetRecord(record, t) ==
    [record EXCEPT
        !.current_step = 0,
        !.status = PENDING,
        !.metadata = DictSet(@, "reset_at", t),
        !.updated_at = t]

\* api/workflows.py reset_workflow(workflow_id).
ResetWorkflow(workflow_id) ==
    /\ IF workflow_id \notin DOMAIN db
       THEN /\ response' = Raised("reset_workflow", "HTTPException")
            /\ UNCHANGED <<db, now>>
       ELSE /\ db' = [db EXCEPT ![workflow_id] = ResetRecord(@, utcnow)]
            /\ now' = ClockRead
            /\ response' = Returned("reset_workflow", TRUE)
    /\ UNCHANGED templates
    /\ UNCHANGED <<concVars, routerVars, pipeVars, svcVars>>

(***************************************************************************)
(* advance_workflow under concurrent callers: the call's session loads the *)
(* row (db.query ... .first()), and later flushes and commits the columns  *)
(* it changed. Nothing locks the row or checks its version in between.     *)
(***************************************************************************)
Callers == {"c1", "c2"}

SessionIdle ==
    [pc |-> "idle", workflow_id |-> None, action |-> None,
     actor_id |-> None, record |-> {}]

\* The UPDATE of a flush: the columns whose value differs from the loaded
\* one are written onto the stored row, the others are left as stored.
Flush(row, loaded, new) ==
    [col \in DOMAIN row |->
        IF new[col] = loaded[col] THEN row[col] ELSE new[col]]

AdvanceQuery(c, workflow_id, action, actor_id) ==
    /\ sessions[c].pc = "idle"
    /\ IF workflow_id \notin DOMAIN db
       THEN /\ response' = ReturnedNone("advance_workflow")
            /\ UNCHANGED sessions
       ELSE /\ sessions' = [sessions EXCEPT ![c] =
                              [pc |-> "loaded", workflow_id |-> workflow_id,
                               action |-> action, actor_id |-> actor_id,
                               record |-> {db[workflow_id]}]]
            /\ UNCHANGED response
    /\ UNCHANGED <<db, templates, now>>
    /\ UNCHANGED <<routerVars, pipeVars, svcVars>>

AdvanceCommit(c) ==
    /\ sessions[c].pc = "loaded"
    /\ LET record == CHOOSE r \in sessions[c].record : TRUE
           action == sessions[c].action
           actor_id == sessions[c].actor_id
       IN  IF record.current_step >= Len(record.steps)
           THEN /\ response' = Raised("advance_workflow", "IndexError")
                /\ UNCHANGED <<db, now>>
           ELSE IF ~ActionMatches(record, action)
           THEN /\ response' = Returned("advance_workflow", FALSE)
                /\ UNCHANGED <<db, now>>
           ELSE /\ db' = [db EXCEPT ![record.workflow_id] =
                            Flush(@, record,
                                  AdvancedRecord(record, actor_id, utcnow))]
                /\ now' = ClockRead
                /\ response' = Returned("advance_workflow", TRUE)
    /\ sessions' = [sessions EXCEPT ![c] = SessionIdle]
    /\ UNCHANGED templates
    /\ UNCHANGED <<routerVars, pipeVars, svcVars>>

(***************************************************************************)
(* Event types and keyword lists of the pipeline.                          *)
(***************************************************************************)
PullRequestMerged ==
    <<"P", "u", "l", "l", "R", "e", "q", "u", "e", "s", "t", "M", "e",
    "r", "g", "e", "d">>
SecretDetected ==
    <<"S", "e", "c", "r", "e", "t", "D", "e", "t", "e", "c", "t", "e",
    "d">>
DeploymentFailed ==
    <<"D", "e", "p", "l", "o", "y", "m", "e", "n", "t", "F", "a", "i",
    "l", "e", "d">>
DeploymentSuccess ==
    <<"D", "e", "p", "l", "o", "y", "m", "e", "n", "t", "S", "u", "c",
    "c", "e", "s", "s">>
WorkflowViolation ==
    <<"W", "o", "r", "k", "f", "l", "o", "w", "V", "i", "o", "l", "a",
    "t", "i", "o", "n">>
PipelineFailed ==
    <<"P", "i", "p", "e", "l", "i", "n", "e", "F", "a", "i", "l", "e",
    "d">>
PipelineCompleted ==
    <<"P", "i", "p", "e", "l", "i", "n", "e", "C", "o", "m", "p", "l",
    "e", "t", "e", "d">>
ForcePushAttempt ==
    <<"F", "o", "r", "c", "e", "P", "u", "s", "h", "A", "t", "t", "e",
    "m", "p", "t">>
TicketUpdated ==
    <<"T", "i", "c", "k", "e", "t", "U", "p", "d", "a", "t", "e", "d">>
DiskFull ==
    <<"d", "i", "s", "k", "_", "f", "u", "l", "l">>
UserLogin ==
    <<"U", "s", "e", "r", "L", "o", "g", "i", "n">>
InferSecurityKeywords ==
    {<<"a", "c", "c", "e", "s", "s">>,
     <<"a", "u", "t", "h">>,
     <<"l", "o", "g", "i", "n">>,
     <<"s", "s", "h">>}
InferFinancialKeywords ==
    {<<"f", "i", "n", "a", "n", "c", "i", "a", "l">>,
     <<"b", "i", "l", "l", "i", "n", "g">>,
     <<"t", "r", "a", "n", "s", "a", "c", "t", "i", "o", "n">>,
     <<"c", "o", "s", "t">>}
InferInfrastructureKeywords ==
    {<<"m", "e", "t", "r", "i", "c">>,
     <<"c", "p", "u">>,
     <<"m", "e", "m", "o", "r", "y">>,
     <<"d", "i", "s", "k">>}
InferComplianceKeywords ==
    {<<"p", "o", "l", "i", "c", "y">>,
     <<"c", "o", "m", "p", "l", "i", "a", "n", "c", "e">>,
     <<"a", "u", "d", "i", "t">>}

\* re.findall(r'\b\w+\b', text.lower()) as a set, for the action texts and
\* the remediation texts of the program.
Words(text) ==
    CASE text = "Review merge justification" ->
           {"justification", "merge", "review"}
      [] text = "Audit changes for security issues" ->
           {"audit", "changes", "for", "issues", "security"}
      [] text = "Remind team about review policy" ->
           {"about", "policy", "remind", "review", "team"}
      [] text = "No action required - normal workflow" ->
           {"action", "no", "normal", "required", "workflow"}
      [] text = "Revoke exposed credential immediately" ->
           {"credential", "exposed", "immediately", "revoke"}
      [] text = "Rotate affected secrets" ->
           {"affected", "rotate", "secrets"}
      [] text = "Scan for unauthorized access" ->
           {"access", "for", "scan", "unauthorized"}
      [] text = "Add pre-commit hooks" ->
           {"add", "commit", "hooks", "pre"}
      [] text = "Investigate build logs" ->
           {"build", "investigate", "logs"}
      [] text = "Consider rollback if needed" ->
           {"consider", "if", "needed", "rollback"}
      [] text = "Notify on-call engineer" ->
           {"call", "engineer", "notify", "on"}
      [] text = "Review build logs" ->
           {"build", "logs", "review"}
      [] text = "Fix failing step" ->
           {"failing", "fix", "step"}
      [] text = "Re-trigger deployment" ->
           {"deployment", "re", "trigger"}
      [] text = "No action required - deployment successful" ->
           {"action", "deployment", "no", "required", "successful"}
      [] text = "Update ticket status" ->
           {"status", "ticket", "update"}
      [] text = "Review linked PR" ->
           {"linked", "pr", "review"}
      [] text = "Sync project board" ->
           {"board", "project", "sync"}
      [] text = "Review pipeline logs" ->
           {"logs", "pipeline", "review"}
      [] text = "Fix failing tests/builds" ->
           {"builds", "failing", "fix", "tests"}
      [] text = "Re-run pipeline" ->
           {"pipeline", "re", "run"}
      [] text = "No action required" ->
           {"action", "no", "required"}
      [] text = "Review user intent" ->
           {"intent", "review", "user"}
      [] text = "Document incident" ->
           {"document", "incident"}
      [] text = "Verify branch protection settings" ->
           {"branch", "protection", "settings", "verify"}
      [] text = "Immediate investigation required" ->
           {"immediate", "investigation", "required"}
      [] text = "Escalate to security team" ->
           {"escalate", "security", "team", "to"}
      [] text = "Document incident timeline" ->
           {"document", "incident", "timeline"}
      [] text = "Review within 1 hour" ->
           {"1", "hour", "review", "within"}
      [] text = "Assess business impact" ->
           {"assess", "business", "impact"}
      [] text = "Document findings" ->
           {"document", "findings"}
      [] text = "Add to review queue" ->
           {"add", "queue", "review", "to"}
      [] text = "Discuss in next standup" ->
           {"discuss", "in", "next", "standup"}
      [] text = "Log for audit purposes" ->
           {"audit", "for", "log", "purposes"}
      [] text = "Enable MFA for all privileged operations" ->
           {"all", "enable", "for", "mfa", "operations", "privileged"}
      [] text = "Document business justification for production access" ->
           {"access", "business", "document", "for", "justification", "production"}
      [] text = "Rotate exposed key immediately and scan for usage" ->
           {"and", "exposed", "for", "immediately", "key", "rotate", "scan", "usage"}
      [] text = "Escalate to Finance Controller for approval" ->
           {"approval", "controller", "escalate", "finance", "for", "to"}
      [] text = "Implement proper approval chain with different approvers" ->
           {"approval", "approvers", "chain", "different", "implement", "proper", "with"}
      [] text = "Schedule during approved windows or obtain CAB approval" ->
           {"approval", "approved", "cab", "during", "obtain", "or", "schedule", "windows"}
      [] text = "Create or link to an approved RFC before proceeding" ->
           {"an", "approved", "before", "create", "link", "or", "proceeding", "rfc", "to"}
      [] text = "Scale horizontally or investigate resource hogs" ->
           {"hogs", "horizontally", "investigate", "or", "resource", "scale"}
      [] text = "Clear logs, expand volume, or add storage" ->
           {"add", "clear", "expand", "logs", "or", "storage", "volume"}
      [] text = "Rotate exposed key immediately" ->
           {"exposed", "immediately", "key", "rotate"}
      [] text = "Notify the repository owner" ->
           {"notify", "owner", "repository", "the"}
      [] OTHER -> {}

(***************************************************************************)
(* models/state.py: the reducers of WorkflowState.  An Optional value is   *)
(* the empty tuple for None and a one-element tuple for a value; a text    *)
(* built by an f-string is the tuple of its parts.                         *)
(***************************************************************************)
NoneValue == <<>>
Some(x) == <<x>>

\* dict.get(key, default).
Get(d, key, default) == IF key \in DOMAIN d THEN d[key] ELSE default

\* {**left, **right}.
merge_dicts(left, right) ==
    [k \in DOMAIN left \cup DOMAIN right |->
        IF k \in DOMAIN right THEN right[k] ELSE left[k]]

\* left if left is not None else right.
keep_first(left, right) == IF left # NoneValue THEN left ELSE right

\* max(left or 0, right or 0): the scores are numbers, and `0 or 0` is 0.
take_max(left, right) == IF left >= right THEN left ELSE right

\* A reducer that overwrites the accumulated list.
KeepRight(left, right) == right

\* A reducer that puts the update before the accumulated list.
PutRightFirst(left, right) == right \o left

\* (left or []) + (right or []).
merge_lists(left, right) == left \o right

\* The reducer WorkflowState annotates each key with.
Reducer(key, left, right) ==
    CASE key \in {"event", "highest_severity", "summary", "root_cause",
                  "start_time"} -> keep_first(left, right)
      [] key \in {"findings", "recommended_actions", "agents_to_run",
                  "agents_completed", "audit_log"} -> merge_lists(left, right)
      [] key = "total_risk_score" -> take_max(left, right)
      [] key = "context" -> merge_dicts(left, right)

\* The graph merges the partial update a node returns into the state: a
\* key the update holds goes through its reducer, the others stay.
Merge(st, upd) ==
    [k \in DOMAIN st |->
        IF k \in DOMAIN upd THEN Reducer(k, st[k], upd[k]) ELSE st[k]]

(***************************************************************************)
(* services/ultracontext.py: the context bundle.                           *)
(***************************************************************************)
Policy(id, name, remediation) ==
    [id |-> id, name |-> name, remediation |-> remediation]

\* ContextAssembler._load_default_policies.
PolicyCache ==
    [Security |->
        <<Policy("SEC-001", "MFA Required for Privileged Access",
                 "Enable MFA for all privileged operations"),
          Policy("SEC-002", "Production Access Logging",
                 "Document business justification for production access"),
          Policy("SEC-003", "AWS Key Exposure Prevention",
                 "Rotate exposed key immediately and scan for usage")>>,
     Financial |->
        <<Policy("FIN-001", "Transaction Threshold Approval",
                 "Escalate to Finance Controller for approval"),
          Policy("FIN-002", "Segregation of Duties",
                 "Implement proper approval chain with different approvers")>>,
     Compliance |->
        <<Policy("COMP-001", "Working Hours Enforcement",
                 "Schedule during approved windows or obtain CAB approval"),
          Policy("COMP-002", "Change Ticket Required",
                 "Create or link to an approved RFC before proceeding")>>,
     Infrastructure |->
        <<Policy("INFRA-001", "Resource Utilization Thresholds",
                 "Scale horizontally or investigate resource hogs"),
          Policy("INFRA-002", "Disk Space Management",
                 "Clear logs, expand volume, or add storage")>>]

\* Mutation: the domain's own policies only.
get_policies_of_domain_only(domain) == Get(PolicyCache, domain, <<>>)

\* get_policies_for_domain: the domain's policies, then the general
\* compliance policies.
get_policies_for_domain(domain) ==
    Get(PolicyCache, domain, <<>>)
    \o (IF domain # "Compliance" THEN PolicyCache["Compliance"] ELSE <<>>)

get_approved_remediations(domain) ==
    [i \in DOMAIN get_policies_for_domain(domain) |->
        get_policies_for_domain(domain)[i].remediation]

\* build_context_for_event; similar is the history collaborator's answer,
\* None when its call raised.
build_context_for_event(ev, similar) ==
    [applicable_policies |-> get_policies_for_domain(ev.domain),
     approved_remediations |-> get_approved_remediations(ev.domain),
     historical_context |-> similar,
     actor_profile |-> NoneValue,
     event_domain |-> ev.domain,
     event_type |-> ev.event_type,
     severity |-> ev.severity]

(***************************************************************************)
(* services/guardrails.py.                                                 *)
(***************************************************************************)
\* check_context_sufficiency: the score of the bundle (a None and an empty
\* list are both falsy).
check_context_ready(context) ==
    100 - (IF context.applicable_policies = <<>> THEN 40 ELSE 0)
        - (IF context.approved_remediations = <<>> THEN 20 ELSE 0)
        - (IF context.historical_context = NoneValue THEN 15 ELSE 0)
        - (IF context.actor_profile = NoneValue THEN 10 ELSE 0)

\* Items of a parsed "actions" list that are not strings, written as
\* their repr.
NonStringItems == {<<"{'step': 'rotate the key'}">>}

\* re.findall(r'\b\w+\b', text.lower()) as a set, for a text in parts.
WordsOf(text) == UNION {Words(text[i]) : i \in DOMAIN text}

\* _similarity_check on the word sets of the two texts: at least 30% of
\* the smaller set is shared.
similarity_check(words1, words2) ==
    /\ words1 # {}
    /\ words2 # {}
    /\ 10 * Cardinality(words1 \cap words2)
          >= 3 * (IF Cardinality(words1) <= Cardinality(words2)
                  THEN Cardinality(words1) ELSE Cardinality(words2))

IsApproved(action, approved_remediations) ==
    \E i \in DOMAIN approved_remediations :
        similarity_check(WordsOf(action), Words(approved_remediations[i]))

\* f"[UNVERIFIED] {action}".
Unverified(action) == <<"[UNVERIFIED] ">> \o action

\* Check 2: an approved action stays, another one is marked.
validated_actions(original_actions, approved_remediations) ==
    [i \in DOMAIN original_actions |->
        IF IsApproved(original_actions[i], approved_remediations)
        THEN original_actions[i]
        ELSE Unverified(original_actions[i])]

\* The refusal of strict mode on a bundle without policies.
Refusal ==
    [summary |-> Some(<<"Unable to analyze - no compliance policies loaded for this domain.">>),
     root_cause |-> NoneValue,
     actions |-> << <<"Manual review required - context insufficient">> >>,
     refused |-> TRUE]

\* re.findall(r'\b\w{4,}\b', text.lower()) as a set, for the root causes
\* and the findings texts handed to the guardrails.
Terms(text) ==
    CASE text = "Hardcoded credential pushed in a commit" ->
           {"hardcoded", "credential", "pushed", "commit"}
      [] text = "Misconfigured firewall rule" ->
           {"misconfigured", "firewall", "rule"}
      [] text = "- AWS Key Exposed: credential pattern found in commit" ->
           {"exposed", "credential", "pattern", "found", "commit"}
      [] OTHER -> {}
TermsOf(text) == UNION {Terms(text[i]) : i \in DOMAIN text}

\* _has_evidence_support on the term sets: a claim without terms passes,
\* else at least 20% of its terms are in the evidence.
has_evidence_support(claim_terms, evidence_terms) ==
    \/ claim_terms = {}
    \/ 10 * Cardinality(claim_terms \cap evidence_terms)
          >= 2 * Cardinality(claim_terms)

\* f"[INFERENCE] {root_cause}".
Inference(root_cause) == <<"[INFERENCE] ">> \o root_cause

\* validate_response.  The result is the exception when an action has no
\* lower(), else the GuardrailResult; warnings is len(warnings).  Check 3
\* marks a root cause the findings_text of the context does not support
\* (the bundle of build_context_for_event holds no findings_text); check 4
\* only looks for frameworks outside KNOWN_FRAMEWORKS among those
\* _extract_frameworks has already filtered to KNOWN_FRAMEWORKS, so it
\* adds no warning.
validate_response(parsed, context, strict_mode) ==
    IF context.applicable_policies = <<>> /\ strict_mode
    THEN [raised |-> "", valid |-> FALSE, modified_response |-> Refusal,
          warnings |-> 1, refused |-> TRUE]
    ELSE IF \E i \in DOMAIN parsed.actions :
                parsed.actions[i] \in NonStringItems
    THEN [raised |-> "AttributeError", valid |-> FALSE,
          modified_response |-> <<>>, warnings |-> 0, refused |-> FALSE]
    ELSE LET actions == validated_actions(parsed.actions,
                                          context.approved_remediations)
             unverified == {i \in DOMAIN parsed.actions :
                               ~IsApproved(parsed.actions[i],
                                           context.approved_remediations)}
             root_cause == parsed.root_cause
             findings_text == Get(context, "findings_text", <<>>)
             inferred ==
                 /\ root_cause # NoneValue
                 /\ root_cause # Some(<<"">>)
                 /\ findings_text # <<>>
                 /\ ~has_evidence_support(TermsOf(root_cause[1]),
                                          TermsOf(findings_text))
             warnings == Cardinality(unverified) + (IF inferred THEN 1 ELSE 0)
         IN  [raised |-> "",
              valid |-> warnings = 0,
              modified_response |->
                 [summary |-> parsed.summary,
                  root_cause |-> IF inferred THEN Some(Inference(root_cause[1]))
                                 ELSE root_cause,
                  actions |-> actions],
              warnings |-> warnings,
              refused |-> FALSE]

\* A response text of the model, with what str.find('{'), str.rfind('}')
\* and json.loads answer on its cleaned form: loads is None for a
\* JSONDecodeError, else the decoded object.
LLMText(raw, start_idx, end_idx, loads) ==
    [raw |-> raw, start_idx |-> start_idx, end_idx |-> end_idx,
     loads |-> loads]

NoBracesText == LLMText("The event needs a manual review.", -1, 0, NoneValue)
MalformedJsonText ==
    LLMText("{summary: key leaked, actions: rotate}", 0, 38, NoneValue)
GoodJsonText ==
    LLMText("{\"summary\": \"Credential exposed\", \"root_cause\": null, \"actions\": [...]}",
            0, 71,
            Some([summary |-> Some(<<"Credential exposed">>),
                  root_cause |-> NoneValue,
                  actions |-> << <<"Rotate exposed key immediately">>,
                                 <<"Notify the repository owner">> >>]))
NonStringActionText ==
    LLMText("{\"summary\": \"Credential exposed\", \"actions\": [{\"step\": \"rotate the key\"}]}",
            0, 75,
            Some([summary |-> Some(<<"Credential exposed">>),
                  actions |-> << <<"{'step': 'rotate the key'}">> >>]))

\* x or y: None, an empty list and an empty string are falsy.
Or(x, y) == IF x # NoneValue /\ x # Some(<<"">>) THEN x ELSE y

\* ResponseParser.parse_json_response on a non-empty text (the texts are
\* shorter than the 200 characters kept of an undecodable one).
parse_llm_json(text) ==
    IF text.start_idx < 0 \/ text.end_idx <= text.start_idx
    THEN [summary |-> Some(<<text.raw>>), root_cause |-> NoneValue,
          actions |-> <<>>, parse_error |-> "No JSON object found"]
    ELSE IF text.loads = NoneValue
    THEN [summary |-> Some(<<text.raw>>), root_cause |-> NoneValue,
          actions |-> <<>>, parse_error |-> "JSONDecodeError"]
    ELSE LET parsed == text.loads[1]
         IN  [summary |->
                     Or(Get(parsed, "summary", NoneValue),
                        Or(Get(parsed, "analysis", NoneValue), Some(<<"">>))),
                   root_cause |->
                     Or(Get(parsed, "root_cause", NoneValue),
                        Or(Get(parsed, "rootCause", NoneValue),
                           Get(parsed, "cause", NoneValue))),
                   actions |->
                     Or(Get(parsed, "actions", NoneValue),
                        Or(Get(parsed, "recommended_actions", NoneValue),
                           Or(Get(parsed, "recommendations", NoneValue),
                              <<>>)))]


(***************************************************************************)
(* agents/insight.py: the synthesizer.                                     *)
(***************************************************************************)
\* The default actions of the generic template, by severity.
DefaultActions(severity) ==
    CASE severity = "Critical" ->
           << <<"Immediate investigation required">>,
              <<"Escalate to security team">>,
              <<"Document incident timeline">> >>
      [] severity = "High" ->
           << <<"Review within 1 hour">>, <<"Assess business impact">>,
              <<"Document findings">> >>
      [] severity = "Medium" ->
           << <<"Add to review queue">>, <<"Discuss in next standup">> >>
      [] OTHER -> << <<"Log for audit purposes">> >>

\* The result dict of generate_contextual_summary.
Analysis(summary, root_cause, actions) ==
    [summary |-> summary, root_cause |-> root_cause, actions |-> actions,
     llm_used |-> FALSE]

\* generate_contextual_summary: one template per known event type, else
\* the generic one built on the first finding.
generate_contextual_summary(ev, findings) ==
    LET severity == ev.severity
        event_type == ev.event_type
        source == ev.source_system
        payload == ev.payload
    IN  CASE event_type = PullRequestMerged ->
               IF Get(payload, "reviewers_approved", 0) = 0
               THEN Analysis(
                      <<"Compliance Sentinel detected policy violation because PR #",
                        Get(payload, "pr_number", "None"),
                        " was merged without required code review in ",
                        Get(payload, "repository", "unknown repo"), ".">>,
                      Some(<<"PR #", Get(payload, "pr_number", "None"),
                             " was merged by ",
                             Get(payload, "username", "unknown"),
                             " using admin bypass.">>),
                      << <<"Review merge justification">>,
                         <<"Audit changes for security issues">>,
                         <<"Remind team about review policy">> >>)
               ELSE Analysis(
                      <<"Standard pull request merged in ",
                        Get(payload, "repository", "repository"), " with ",
                        Get(payload, "reviewers_approved", 0),
                        " approvals.">>,
                      NoneValue,
                      << <<"No action required - normal workflow">> >>)
          [] event_type = SecretDetected ->
               Analysis(
                 <<"Security Watchdog detected credential exposure because sensitive credential (",
                   Get(payload, "secret_type", "unknown type"),
                   ") was found in repository ",
                   Get(payload, "repository", "unknown"), ".">>,
                 Some(<<"Secret committed in file ",
                        Get(payload, "file_path", "unknown"), " by ",
                        Get(payload, "username", "unknown"), ".">>),
                 << <<"Revoke exposed credential immediately">>,
                    <<"Rotate affected secrets">>,
                    <<"Scan for unauthorized access">>,
                    <<"Add pre-commit hooks">> >>)
          [] event_type = DeploymentFailed ->
               Analysis(
                 <<"Deployment to ", Get(payload, "environment", "unknown"),
                   " failed for project ",
                   Get(payload, "project", "unknown"), ".">>,
                 Some(<<Get(payload, "error_message",
                            "Build or deployment configuration error")>>),
                 IF Get(payload, "environment", "unknown") = "production"
                 THEN << <<"Investigate build logs">>,
                         <<"Consider rollback if needed">>,
                         <<"Notify on-call engineer">> >>
                 ELSE << <<"Review build logs">>, <<"Fix failing step">>,
                         <<"Re-trigger deployment">> >>)
          [] event_type = DeploymentSuccess ->
               Analysis(
                 <<"Successful deployment to ",
                   Get(payload, "environment", "unknown"), " for ",
                   Get(payload, "project", "unknown"), ".">>,
                 NoneValue,
                 << <<"No action required - deployment successful">> >>)
          [] event_type = WorkflowViolation ->
               Analysis(
                 <<"Workflow policy violation detected: ",
                   Get(payload, "violation_type", "status mismatch"), ".">>,
                 Some(<<"Ticket ", Get(payload, "ticket_id", "unknown"),
                        " is in '", Get(payload, "current_status", "None"),
                        "' but expected '",
                        Get(payload, "expected_status", "None"), "'.">>),
                 << <<"Update ticket status">>, <<"Review linked PR">>,
                    <<"Sync project board">> >>)
          [] event_type = PipelineFailed ->
               Analysis(
                 <<"CI/CD pipeline failed for ",
                   Get(payload, "repository", "unknown"), ": ",
                   Get(payload, "failure_reason", "unknown error"), ".">>,
                 IF "failure_reason" \in DOMAIN payload
                 THEN Some(<<payload["failure_reason"]>>) ELSE NoneValue,
                 << <<"Review pipeline logs">>,
                    <<"Fix failing tests/builds">>, <<"Re-run pipeline">> >>)
          [] event_type = PipelineCompleted ->
               Analysis(
                 <<"CI/CD pipeline completed successfully for ",
                   Get(payload, "repository", "unknown"), " with ",
                   Get(payload, "tests_passed", 0), " tests passing.">>,
                 NoneValue,
                 << <<"No action required">> >>)
          [] event_type = ForcePushAttempt ->
               Analysis(
                 <<"Force push attempt blocked on protected branch '",
                   Get(payload, "branch", "main"), "'.">>,
                 Some(<<"User ", Get(payload, "username", "unknown"),
                        " attempted to force push to protected branch.">>),
                 << <<"Review user intent">>, <<"Document incident">>,
                    <<"Verify branch protection settings">> >>)
          [] event_type = TicketUpdated ->
               Analysis(
                 <<"Ticket ", Get(payload, "ticket_id", "unknown"),
                   " status changed from '",
                   Get(payload, "old_status", "None"), "' to '",
                   Get(payload, "new_status", "None"), "'.">>,
                 NoneValue,
                 << <<"No action required - normal workflow">> >>)
          [] OTHER ->
               IF findings # <<>>
               THEN Analysis(
                      <<severity, " severity ", event_type, " event: ",
                        Get(findings[1], "title", "Issue detected"), ". ",
                        Len(findings), " finding(s) identified.">>,
                      IF "description" \in DOMAIN findings[1]
                      THEN Some(findings[1].description) ELSE NoneValue,
                      DefaultActions(severity))
               ELSE Analysis(
                      <<severity, " ", event_type, " event from ", source,
                        ". No critical findings identified.">>,
                      NoneValue,
                      DefaultActions(severity))

\* What the HTTP client does on the post: raise, or answer with a status
\* and, on 200, a body whose content is a text.
EmptyText == LLMText("", -1, 0, NoneValue)
LLMTexts ==
    {EmptyText, NoBracesText, MalformedJsonText, GoodJsonText,
     NonStringActionText}
HttpAnswer(raised, status_code, content) ==
    [raised |-> raised, status_code |-> status_code, content |-> content]
HttpAnswers ==
    {HttpAnswer("TimeoutException", 0, EmptyText),
     HttpAnswer("ConnectError", 0, EmptyText),
     HttpAnswer("", 500, EmptyText)}
    \cup {HttpAnswer("", 200, text) : text \in LLMTexts}

\* No request was made.
NoHttp == HttpAnswer("no request", 0, EmptyText)

\* call_glm_fast: None without an API key, on an exception and on a
\* status other than 200; else the content of the body.
call_glm_fast(key, http) ==
    IF ~key THEN NoneValue
    ELSE IF http.raised # "" THEN NoneValue
    ELSE IF http.status_code = 200 THEN Some(http.content)
    ELSE NoneValue

\* The severities the synthesizer answers by rule, without the model.
FastPathLowOnly == {"Low"}
FastPathUpToHigh == {"Low", "Medium", "High"}
FastPathSeverities == {"Low", "Medium"}

\* if llm_response: a None and an empty text are falsy.
HasText(llm_response) ==
    llm_response # NoneValue /\ llm_response[1].raw # ""

\* The audit-log entry of the synthesizer.
InsightEntry(llm_used, mode, context_score, guardrails_passed) ==
    [step |-> "Insight Synthesis", agent |-> "insight_synthesizer",
     llm_used |-> llm_used, mode |-> mode,
     context_score |-> context_score,
     guardrails_passed |-> guardrails_passed]

\* insight_synthesizer_agent on a state with an event.  similar is the
\* history collaborator's answer, llm_response what call_glm_fast
\* returned.  raised names the exception that leaves the function.
insight_synthesizer_agent(st, similar, llm_response) ==
    LET ev == st.event[1]
        findings == st.findings
        severity == ev.severity
        result == generate_contextual_summary(ev, findings)
    IN  IF severity \in FastPathSeverities
        THEN [raised |-> "",
              update |->
                [summary |-> Some(result.summary),
                 root_cause |-> result.root_cause,
                 recommended_actions |-> result.actions,
                 audit_log |->
                    <<[step |-> "Insight Synthesis",
                       agent |-> "insight_synthesizer",
                       llm_used |-> FALSE, mode |-> "rule_based"]>>,
                 agents_completed |-> <<"insight_synthesizer">>,
                 context |-> [llm_context_score |-> 0,
                              guardrails_applied |-> FALSE]]]
        ELSE LET context == build_context_for_event(ev, similar)
                 context_score == check_context_ready(context)
                 llm_used == HasText(llm_response)
                 parsed == IF llm_used THEN parse_llm_json(llm_response[1])
                           ELSE [summary |-> Some(result.summary),
                                 root_cause |-> result.root_cause,
                                 actions |-> result.actions]
                 guardrail_result == validate_response(parsed, context, TRUE)
                 final_response == guardrail_result.modified_response
             IN  IF guardrail_result.raised # ""
                 THEN [raised |-> guardrail_result.raised, update |-> <<>>]
                 ELSE [raised |-> "",
                       update |->
                         [summary |-> Get(final_response, "summary",
                                          Some(<<"Analysis complete.">>)),
                          root_cause |-> Get(final_response, "root_cause",
                                             NoneValue),
                          recommended_actions |->
                             Get(final_response, "actions", <<>>),
                          audit_log |->
                             <<InsightEntry(
                                 llm_used,
                                 IF llm_used THEN "llm" ELSE "fallback",
                                 context_score, guardrail_result.valid)>>,
                          agents_completed |-> <<"insight_synthesizer">>,
                          context |-> [llm_context_score |-> context_score,
                                       guardrails_applied |-> TRUE]]]

\* Answers of the history collaborator: its call raises, or it returns
\* similar events.
SimilarEventsInputs == {NoneValue, <<"evt-0">>}

\* The graph node insight.  On the fast path no collaborator is called;
\* else the history collaborator and call_glm_fast are called once each,
\* and call_glm_fast posts once when it holds an API key.  An exception
\* that leaves the function ends the run.
InsightSynthesizer ==
    /\ node = "insight"
    /\ IF state.event[1].severity \in FastPathSeverities
       THEN /\ update' = insight_synthesizer_agent(state, NoneValue,
                                                   NoneValue).update
            /\ state' = Merge(state, update')
            /\ node' = "audit"
            /\ UNCHANGED <<env, calls>>
       ELSE \E similar \in SimilarEventsInputs, key \in BOOLEAN,
               http \in HttpAnswers :
              LET r == insight_synthesizer_agent(state, similar,
                                                 call_glm_fast(key, http))
              IN  /\ env' = [env EXCEPT !.similar = similar, !.key = key,
                                        !.http = IF key THEN http ELSE NoHttp]
                  /\ calls' = [calls EXCEPT
                                 !.call_glm_fast = @ + 1,
                                 !.post = IF key THEN @ + 1 ELSE @]
                  /\ IF r.raised # ""
                     THEN /\ update' = [raised |-> r.raised]
                          /\ node' = "raised"
                          /\ UNCHANGED state
                     ELSE /\ update' = r.update
                          /\ state' = Merge(state, update')
                          /\ node' = "audit"
    /\ UNCHANGED <<wfVars, concVars, routerVars, svcVars>>

\* What the collaborators have answered so far, and the calls made.
NoAnswers ==
    [results |-> <<>>, similar |-> <<>>, key |-> FALSE, http |-> NoHttp,
     save |-> "", history |-> <<>>, tm_hour |-> 0]
NoCalls == [call_glm_fast |-> 0, post |-> 0, save_audit_entry |-> 0]

(***************************************************************************)
(* models/events.py: StandardizedEvent and its domain validator.           *)
(***************************************************************************)
\* infer_domain: a domain other than Unknown stays; Unknown is inferred
\* from the lower-cased event type.
infer_domain(v, event_type) ==
    IF v # "Unknown" THEN v
    ELSE IF ContainsAny(Lower(event_type), InferSecurityKeywords)
         THEN "Security"
    ELSE IF ContainsAny(Lower(event_type), InferFinancialKeywords)
         THEN "Financial"
    ELSE IF ContainsAny(Lower(event_type), InferInfrastructureKeywords)
         THEN "Infrastructure"
    ELSE IF ContainsAny(Lower(event_type), InferComplianceKeywords)
         THEN "Compliance"
    ELSE "Unknown"

StandardizedEvent(event_type, source_system, severity, domain, payload) ==
    [event_type |-> event_type, source_system |-> source_system,
     severity |-> severity, domain |-> infer_domain(domain, event_type),
     payload |-> payload]

\* Event types with the payloads sent along: three with a template of
\* their own in the synthesizer, two without.
TypedPayloadInputs ==
    {<<SecretDetected, [secret_type |-> "AWS_ACCESS_KEY",
                        repository |-> "orbitr"]>>,
     <<DeploymentFailed, [environment |-> "production"]>>,
     <<PullRequestMerged, [reviewers_approved |-> 0, pr_number |-> "7"]>>,
     <<DiskFull, <<>>>>,
     <<UserLogin, <<>>>>}

PipelineDomainInputs == {"Security", "Infrastructure", "Unknown"}

PipelineEventInputs ==
    {StandardizedEvent(tp[1], "github", severity, domain, tp[2]) :
        tp \in TypedPayloadInputs, severity \in Severity,
        domain \in PipelineDomainInputs}

\* main.py ingest_event: the initial state handed to graph.invoke.
InitialState(ev) ==
    [event |-> Some(ev),
     findings |-> <<>>,
     total_risk_score |-> 0,
     highest_severity |-> Some("Low"),
     summary |-> NoneValue,
     root_cause |-> NoneValue,
     recommended_actions |-> <<>>,
     agents_to_run |-> <<>>,
     agents_completed |-> <<>>,
     audit_log |-> <<>>,
     start_time |-> Some(0),
     context |-> [priority |-> "priority", workflow_id |-> NoneValue,
                  trace_id |-> "run"]]

(***************************************************************************)
(* agents/normalizer.py.                                                   *)
(***************************************************************************)
normalizer_agent(st) ==
    LET ev == st.event
        event_type == IF ev # NoneValue THEN ev[1].event_type
                      ELSE <<"U", "n", "k", "n", "o", "w", "n">>
        source_system == IF ev # NoneValue THEN ev[1].source_system
                         ELSE "Unknown"
    IN  [start_time |-> Some(1),
         audit_log |->
            <<[step |-> "Normalization", agent |-> "normalizer",
               message |-> <<"Event normalized: ", event_type, " from ",
                             source_system>>]>>,
         agents_completed |-> <<"normalizer">>]

\* The graph node normalizer.
Normalizer ==
    /\ node = "normalizer"
    /\ update' = normalizer_agent(state)
    /\ state' = Merge(state, update')
    /\ node' = "supervisor"
    /\ UNCHANGED <<env, calls>>
    /\ UNCHANGED <<wfVars, concVars, routerVars, svcVars>>

\* The dict supervisor_agent returns, with the keys it holds.
SupervisorUpdate(ev) ==
    LET r == supervisor_agent(ev)
    IN  [k \in r.keys |-> r[k]]

\* The graph node supervisor.
Supervisor ==
    /\ node = "supervisor"
    /\ update' = SupervisorUpdate(IF state.event # NoneValue
                                  THEN state.event[1] ELSE NoEvent)
    /\ state' = Merge(state, update')
    /\ node' = "experts"
    /\ UNCHANGED <<env, calls>>
    /\ UNCHANGED <<wfVars, concVars, routerVars, svcVars>>

(***************************************************************************)
(* graph/workflow.py: the checker registry and the dispatcher.  What a     *)
(* checker answers on a state is an input: it raises, or it returns its    *)
(* result dict.                                                            *)
(***************************************************************************)
AGENT_REGISTRY ==
    {"security_watchdog", "compliance_sentinel", "anomaly_detector",
     "cost_analyst", "resource_watcher", "infrastructure_monitor"}

\* The "step" each checker writes into its audit-log entry.
CheckerStep(agent_id) ==
    CASE agent_id = "security_watchdog" -> "Security Analysis"
      [] agent_id = "compliance_sentinel" -> "Compliance Analysis"
      [] agent_id = "anomaly_detector" -> "Anomaly Detection"
      [] agent_id = "cost_analyst" -> "Cost Analysis"
      [] agent_id = "resource_watcher" -> "Resource Watch"
      [] agent_id = "infrastructure_monitor" -> "Infrastructure Monitoring"

\* A finding dict; confidence in hundredths.
Finding(agent_id, title, severity, confidence) ==
    [agent_id |-> agent_id, title |-> title,
     description |-> <<"Detected: ", title>>,
     severity |-> severity, confidence |-> confidence]

\* A checker whose audit-log entry counts no finding.
CheckerResultUncounted(agent_id, findings) ==
    [findings |-> findings,
     audit_log |-> <<[step |-> CheckerStep(agent_id), agent |-> agent_id,
                      findings_count |-> 0]>>,
     agents_completed |-> <<agent_id>>]

\* The dict a checker returns for a present event.
CheckerResult(agent_id, findings) ==
    [findings |-> findings,
     audit_log |-> <<[step |-> CheckerStep(agent_id), agent |-> agent_id,
                      findings_count |-> Len(findings)]>>,
     agents_completed |-> <<agent_id>>]

\* if not event: return {"agents_completed": [AGENT_ID]}.
AbsentEventResult(agent_id) ==
    [raises |-> FALSE, error |-> "",
     result |-> [agents_completed |-> <<agent_id>>]]

\* The findings a checker returns when its rules match: severities and
\* confidences of its rule table.
RuleFindings(agent_id) ==
    CASE agent_id = "security_watchdog" ->
           <<Finding(agent_id, "Unknown IP Location", "High", 85),
             Finding(agent_id, "Unusual Event Frequency", "Medium", 75)>>
      [] agent_id = "compliance_sentinel" ->
           <<Finding(agent_id, "[POL-002] Change Ticket Required",
                     "High", 88)>>
      [] agent_id = "anomaly_detector" ->
           <<Finding(agent_id, "Disk Space Warning", "Medium", 80)>>
      [] agent_id = "cost_analyst" ->
           <<Finding(agent_id, "Reconciliation Mismatch", "High", 92)>>
      [] agent_id = "resource_watcher" ->
           <<Finding(agent_id, "Critical CPU Usage", "Critical", 98)>>
      [] agent_id = "infrastructure_monitor" ->
           <<Finding(agent_id, "High Instance Count", "Low", 60)>>

\* What a call of a checker does: raise with an error text, return no
\* finding, or return its rule findings.
CheckerAnswerKinds == {"raises", "nothing", "findings"}

CheckerOutcome(agent_id, kind) ==
    CASE kind = "raises" ->
           [raises |-> TRUE, error |-> "checker failed", result |-> <<>>]
      [] kind = "nothing" ->
           [raises |-> FALSE, error |-> "",
            result |-> CheckerResult(agent_id, <<>>)]
      [] kind = "findings" ->
           [raises |-> FALSE, error |-> "",
            result |-> CheckerResult(agent_id, RuleFindings(agent_id))]

\* Every way the registered checkers named in names can answer.
CheckerAnswers(names) ==
    {[a \in Range(names) \cap AGENT_REGISTRY |-> CheckerOutcome(a, kinds[a])] :
        kinds \in [Range(names) \cap AGENT_REGISTRY -> CheckerAnswerKinds]}

\* The accumulators of run_expert_agents before the loop.
NoResults == [findings |-> <<>>, audit_log |-> <<>>, agents_completed |-> <<>>]

\* except Exception: the entry appended to all_logs.
AgentError(agent_name, error) ==
    [step |-> "Agent Error", agent |-> agent_name, error |-> error]

\* A dispatcher that lets the exception of a checker end the loop.
RECURSIVE RunAgentsUntilError(_, _, _)
RunAgentsUntilError(names, results, acc) ==
    IF names = <<>> THEN acc
    ELSE IF Head(names) \notin AGENT_REGISTRY
         THEN RunAgentsUntilError(Tail(names), results, acc)
    ELSE IF results[Head(names)].raises
         THEN [acc EXCEPT !.audit_log =
                 Append(@, AgentError(Head(names), results[Head(names)].error))]
    ELSE RunAgentsUntilError(Tail(names), results,
            [findings |-> acc.findings
                \o Get(results[Head(names)].result, "findings", <<>>),
             audit_log |-> acc.audit_log
                \o Get(results[Head(names)].result, "audit_log", <<>>),
             agents_completed |-> acc.agents_completed
                \o Get(results[Head(names)].result, "agents_completed", <<>>)])

\* A dispatcher that puts the findings of each checker before those of
\* the checkers that ran earlier.
RECURSIVE RunAgentsPrepending(_, _, _)
RunAgentsPrepending(names, results, acc) ==
    IF names = <<>> THEN acc
    ELSE IF Head(names) \notin AGENT_REGISTRY
         THEN RunAgentsPrepending(Tail(names), results, acc)
    ELSE IF results[Head(names)].raises
         THEN RunAgentsPrepending(Tail(names), results,
                [acc EXCEPT !.audit_log =
                   Append(@, AgentError(Head(names),
                                        results[Head(names)].error))])
    ELSE RunAgentsPrepending(Tail(names), results,
            [findings |-> Get(results[Head(names)].result, "findings", <<>>)
                \o acc.findings,
             audit_log |-> acc.audit_log
                \o Get(results[Head(names)].result, "audit_log", <<>>),
             agents_completed |-> acc.agents_completed
                \o Get(results[Head(names)].result, "agents_completed", <<>>)])

\* A dispatcher that counts a checker that raised as completed.
RECURSIVE RunAgentsCompletingAll(_, _, _)
RunAgentsCompletingAll(names, results, acc) ==
    IF names = <<>> THEN acc
    ELSE IF Head(names) \notin AGENT_REGISTRY
         THEN RunAgentsCompletingAll(Tail(names), results, acc)
    ELSE IF results[Head(names)].raises
         THEN RunAgentsCompletingAll(Tail(names), results,
                [acc EXCEPT !.audit_log =
                   Append(@, AgentError(Head(names),
                                        results[Head(names)].error)),
                            !.agents_completed = Append(@, Head(names))])
    ELSE RunAgentsCompletingAll(Tail(names), results,
            [findings |-> acc.findings
                \o Get(results[Head(names)].result, "findings", <<>>),
             audit_log |-> acc.audit_log
                \o Get(results[Head(names)].result, "audit_log", <<>>),
             agents_completed |-> acc.agents_completed
                \o Get(results[Head(names)].result, "agents_completed", <<>>)])

\* The loop of run_expert_agents over agents_to_run.
RECURSIVE RunAgents(_, _, _)
RunAgents(names, results, acc) ==
    IF names = <<>> THEN acc
    ELSE IF Head(names) \notin AGENT_REGISTRY
         THEN RunAgents(Tail(names), results, acc)
    ELSE IF results[Head(names)].raises
         THEN RunAgents(Tail(names), results,
                [acc EXCEPT !.audit_log =
                   Append(@, AgentError(Head(names),
                                        results[Head(names)].error))])
    ELSE RunAgents(Tail(names), results,
            [findings |-> acc.findings
                \o Get(results[Head(names)].result, "findings", <<>>),
             audit_log |-> acc.audit_log
                \o Get(results[Head(names)].result, "audit_log", <<>>),
             agents_completed |-> acc.agents_completed
                \o Get(results[Head(names)].result, "agents_completed", <<>>)])

run_expert_agents(st, results) == RunAgents(st.agents_to_run, results, NoResults)

\* The graph node experts; the checkers' answers are recorded in env.
RunExpertAgents ==
    /\ node = "experts"
    /\ \E results \in CheckerAnswers(state.agents_to_run) :
          /\ update' = run_expert_agents(state, results)
          /\ env' = [env EXCEPT !.results = results]
    /\ state' = Merge(state, update')
    /\ node' = "insight"
    /\ UNCHANGED calls
    /\ UNCHANGED <<wfVars, concVars, routerVars, svcVars>>

(***************************************************************************)
(* agents/audit.py: the finalizer.  Scores are in hundredths, the risk of  *)
(* a finding in thousandths (weight in tenths times confidence in          *)
(* hundredths).                                                            *)
(***************************************************************************)
\* severity_weights.get(sev, 0.2), in tenths.
severity_weights(sev) ==
    CASE sev = "Critical" -> 10
      [] sev = "High" -> 8
      [] sev = "Medium" -> 5
      [] sev = "Low" -> 2
      [] OTHER -> 2

\* severity_order.index(sev).
severity_order == <<"Low", "Medium", "High", "Critical">>
SeverityIndex(sev) == CHOOSE i \in DOMAIN severity_order : severity_order[i] = sev

\* A risk that adds the findings up.
RECURSIVE SumRisk(_)
SumRisk(findings) ==
    IF findings = <<>> THEN 0
    ELSE severity_weights(Get(Head(findings), "severity", "Low"))
            * Get(Head(findings), "confidence", 50)
         + SumRisk(Tail(findings))

\* The loop's total_risk: the greatest weight * conf, 0 without findings.
RECURSIVE MaxRisk(_)
MaxRisk(findings) ==
    IF findings = <<>> THEN 0
    ELSE LET finding_risk ==
                severity_weights(Get(Head(findings), "severity", "Low"))
                    * Get(Head(findings), "confidence", 50)
             rest == MaxRisk(Tail(findings))
         IN  IF finding_risk >= rest THEN finding_risk ELSE rest

\* A loop that keeps the severity of the last finding.
RECURSIVE LastSeverity(_, _)
LastSeverity(findings, highest_severity) ==
    IF findings = <<>> THEN highest_severity
    ELSE LastSeverity(Tail(findings), Get(Head(findings), "severity", "Low"))

\* The loop's highest_severity, started at highest_severity.
RECURSIVE HighestSeverity(_, _)
HighestSeverity(findings, highest_severity) ==
    IF findings = <<>> THEN highest_severity
    ELSE LET sev == Get(Head(findings), "severity", "Low")
         IN  HighestSeverity(Tail(findings),
                IF SeverityIndex(sev) > SeverityIndex(highest_severity)
                THEN sev ELSE highest_severity)

\* The thousandths p = 5 * c at which round(0.5 * (c / 100), 2) goes up:
\* the double nearest to c / 100 is not below it (0.375 is exact and
\* rounds to even, 0.38; 0.425 is stored below and rounds to 0.42).
HalfRoundsUp ==
    {5, 25, 35, 55, 65, 85, 95, 115, 135, 165, 195, 225, 255, 265, 275,
     315, 325, 335, 375, 385, 395, 405, 445, 455, 465}

\* round(x, 2) of x = p thousandths, in hundredths.  The last digit of p
\* is 5 for a Medium finding only (weights 1.0, 0.8 and 0.2 give an even
\* digit).
Round2(p) ==
    IF p % 10 < 5 THEN p \div 10
    ELSE IF p % 10 > 5 THEN p \div 10 + 1
    ELSE IF p \in HalfRoundsUp THEN p \div 10 + 1
    ELSE p \div 10

\* round(min(1.0, total_risk), 2).
TotalRisk(findings) ==
    Round2(IF MaxRisk(findings) <= 1000 THEN MaxRisk(findings) ELSE 1000)

\* The answers of save_audit_entry: it returns, or it raises.
SaveAnswers == {"", "database is locked"}

\* A handler that reports a save whatever happened.
AlwaysSaved(save) == <<"saved">>

\* db_status: "saved", or f"error: {str(e)}".
DbStatus(save) == IF save = "" THEN <<"saved">> ELSE <<"error: ", save>>

\* any(entry.get("llm_used", False) for entry in audit_log).
AnyLlmUsed(audit_log) ==
    \E i \in DOMAIN audit_log : Get(audit_log[i], "llm_used", FALSE)

\* guardrails_passed of the first insight_synthesizer entry, default True.
GuardrailsPassed(audit_log) ==
    LET entries == {i \in DOMAIN audit_log :
                      Get(audit_log[i], "agent", NoneValue)
                         = "insight_synthesizer"}
    IN  IF entries = {} THEN TRUE
        ELSE Get(audit_log[CHOOSE i \in entries :
                              \A j \in entries : i <= j],
                 "guardrails_passed", TRUE)

\* audit_coordinator_agent; save is what save_audit_entry answered.
audit_coordinator_agent(st, save) ==
    LET findings == st.findings
        total_risk == TotalRisk(findings)
        highest_severity == HighestSeverity(findings, "Low")
    IN  [total_risk_score |-> total_risk,
         highest_severity |-> Some(highest_severity),
         audit_log |->
            <<[step |-> "Audit Coordination", agent |-> "audit_coordinator",
               risk_score |-> total_risk,
               highest_severity |-> highest_severity,
               findings_count |-> Len(findings),
               db_status |-> DbStatus(save),
               context_score |-> Get(st.context, "llm_context_score", 0),
               guardrails_passed |-> GuardrailsPassed(st.audit_log),
               llm_used |-> AnyLlmUsed(st.audit_log)]>>,
         agents_completed |-> <<"audit_coordinator">>]

\* The graph node audit: one call of save_audit_entry, whose exception is
\* caught.
AuditCoordinator ==
    /\ node = "audit"
    /\ \E save \in SaveAnswers :
          /\ update' = audit_coordinator_agent(state, save)
          /\ env' = [env EXCEPT !.save = save]
    /\ calls' = [calls EXCEPT !.save_audit_entry = @ + 1]
    /\ state' = Merge(state, update')
    /\ node' = "END"
    /\ UNCHANGED <<wfVars, concVars, routerVars, svcVars>>

(***************************************************************************)
(* The checkers on a payload.  A payload value carries its Python type:    *)
(* a str is a sequence of characters.                                      *)
(***************************************************************************)
StrValue(chars) == [t |-> "str", v |-> chars]
IntValue(n) == [t |-> "int", v |-> n]
BoolValue(b) == [t |-> "bool", v |-> b]

\* bool(value).
IsTruthy(value) ==
    CASE value.t = "str" -> value.v # <<>>
      [] value.t = "int" -> value.v # 0
      [] value.t = "bool" -> value.v

\* The decimal digits of a natural number.
RECURSIVE Digits(_)
Digits(n) ==
    LET digit == <<"0", "1", "2", "3", "4", "5", "6", "7", "8", "9">>
    IN  IF n < 10 THEN <<digit[n + 1]>>
        ELSE Append(Digits(n \div 10), digit[(n % 10) + 1])

\* str(value).
StrOf(value) ==
    CASE value.t = "str" -> value.v
      [] value.t = "int" -> Digits(value.v)
      [] value.t = "bool" -> IF value.v THEN <<"T", "r", "u", "e">>
                             ELSE <<"F", "a", "l", "s", "e">>

\* value > n raises TypeError on a str; a bool counts as 0 or 1.
ComparisonRaises(value) == value.t = "str"
GreaterThan(value, n) ==
    CASE value.t = "int" -> value.v > n
      [] value.t = "bool" -> (IF value.v THEN 1 ELSE 0) > n
      [] OTHER -> FALSE

\* re.search(r'AKIA[0-9A-Z]{16}', value).
AwsKeyCharacters ==
    {"0", "1", "2", "3", "4", "5", "6", "7", "8", "9",
     "A", "B", "C", "D", "E", "F", "G", "H", "I", "J", "K", "L", "M",
     "N", "O", "P", "Q", "R", "S", "T", "U", "V", "W", "X", "Y", "Z"}
AwsKeyPattern(chars) ==
    \E i \in 1..(Len(chars) - 19) :
        /\ SubSeq(chars, i, i + 3) = <<"A", "K", "I", "A">>
        /\ \A j \in (i + 4)..(i + 19) : chars[j] \in AwsKeyCharacters

\* A finding dict of a checker; confidence in hundredths.
CheckerFinding(agent_id, title, description, severity, confidence) ==
    [agent_id |-> agent_id, title |-> title, description |-> description,
     severity |-> severity, confidence |-> confidence]

\* The findings of the rules that fired, in rule order: rules is a list of
\* [fires, finding].
RECURSIVE Fired(_)
Fired(rules) ==
    IF rules = <<>> THEN <<>>
    ELSE (IF Head(rules).fires THEN <<Head(rules).finding>> ELSE <<>>)
         \o Fired(Tail(rules))

\* The target of an access: p.get("target", p.get("host", "")).
TargetOf(p) == Get(p, "target", Get(p, "host", StrValue(<<>>)))

SudoKeyword == <<"s", "u", "d", "o">>

\* The "sudo without MFA" condition of the security and compliance rules.
SudoInAction(p) ==
    Contains(Lower(StrOf(Get(p, "action", StrValue(<<>>)))), SudoKeyword)

(***************************************************************************)
(* agents/security.py.                                                     *)
(***************************************************************************)
ProductionDatabaseKeywords ==
    {<<"p", "r", "o", "d", "-", "d", "b">>,
     <<"d", "b", "-", "p", "r", "o", "d">>,
     <<"p", "r", "o", "d", "u", "c", "t", "i", "o", "n">>}
UnknownLocations ==
    {<<"u", "n", "k", "n", "o", "w", "n">>,
     <<"u", "n", "k", "n", "o", "w", "n", "-", "i", "p">>,
     <<"t", "o", "r">>,
     <<"v", "p", "n", "-", "e", "x", "i", "t">>}

\* What the history collaborator answers to the security checker: its
\* first call raises, or it reports a repeat offender or not; its second
\* call raises, or it reports a frequency anomaly or not.
HistoryAnswer(actor, frequency) == [actor |-> actor, frequency |-> frequency]
HistoryAnswers ==
    {HistoryAnswer(a, f) : a \in {"raises", "no", "repeat offender"},
                           f \in {"raises", "no", "anomaly"}}

\* actor_id: payload.get('user_id') or payload.get('username', 'Unknown').
ActorId(p) ==
    IF "user_id" \in DOMAIN p /\ IsTruthy(p["user_id"]) THEN p["user_id"]
    ELSE Get(p, "username", StrValue(<<"U", "n", "k", "n", "o", "w", "n">>))

SecurityFinding(title, source, severity, confidence) ==
    CheckerFinding("security_watchdog", title,
                   <<"Detected: ", title, " in event from ", source>>,
                   severity, confidence)

\* DETECTION_RULES on a payload: the pattern rule looks at every str
\* value; a check that raises is caught and counts as not triggered.
DetectionRules(p, source) ==
    <<[fires |-> \E key \in DOMAIN p :
                    p[key].t = "str" /\ AwsKeyPattern(p[key].v),
       finding |-> SecurityFinding("AWS Key Exposure", source,
                                   "Critical", 95)],
      [fires |-> /\ SudoInAction(p)
                 /\ ~IsTruthy(Get(p, "mfa_present", BoolValue(TRUE))),
       finding |-> SecurityFinding("Privileged Command Without MFA", source,
                                   "Critical", 92)],
      [fires |-> ContainsAny(Lower(StrOf(TargetOf(p))),
                             ProductionDatabaseKeywords),
       finding |-> SecurityFinding("Production Database Access", source,
                                   "High", 80)],
      [fires |-> /\ Get(p, "location", StrValue(<<>>)).t = "str"
                 /\ Lower(Get(p, "location", StrValue(<<>>)).v)
                       \in UnknownLocations,
       finding |-> SecurityFinding("Unknown IP Location", source,
                                   "High", 85)]>>

\* The historical findings: the block is left at the first call that
\* raises, keeping what it has appended.
HistoricalFindings(p, history) ==
    LET known == /\ IsTruthy(ActorId(p))
                 /\ ~(/\ ActorId(p).t = "str"
                       /\ ActorId(p).v = <<"U", "n", "k", "n", "o", "w", "n">>)
        repeat ==
            CheckerFinding("security_watchdog", "Repeat Security Offender",
                           <<"Actor ", ActorId(p), " has high-severity events in past 7 days">>,
                           "High", 90)
        anomaly ==
            CheckerFinding("security_watchdog", "Unusual Event Frequency",
                           <<"events in past hour">>, "Medium", 75)
    IN  IF known /\ history.actor = "raises" THEN <<>>
        ELSE (IF known /\ history.actor = "repeat offender"
              THEN <<repeat>> ELSE <<>>)
             \o (IF history.frequency = "anomaly" THEN <<anomaly>> ELSE <<>>)

\* security_watchdog_agent on a state.
security_watchdog_agent(st, history) ==
    LET ev == st.event[1]
        all_findings == Fired(DetectionRules(ev.payload, ev.source_system))
                        \o HistoricalFindings(ev.payload, history)
    IN  IF st.event = NoneValue THEN AbsentEventResult("security_watchdog")
        ELSE [raises |-> FALSE, error |-> "",
              result |-> CheckerResult("security_watchdog", all_findings)]

(***************************************************************************)
(* agents/compliance.py.                                                   *)
(***************************************************************************)
ProductionKeywords ==
    {<<"p", "r", "o", "d">>,
     <<"p", "r", "o", "d", "u", "c", "t", "i", "o", "n">>}
ChangeTicketKeys == {"change_id", "ticket_id", "jira_id"}

ComplianceFinding(id, name, description, severity, confidence) ==
    CheckerFinding("compliance_sentinel", <<"[", id, "] ", name>>,
                   <<description>>, severity, confidence)

\* COMPLIANCE_RULES on an event and its payload; tm_hour is the local hour
\* of the event's timestamp.  A check that raises is caught and the rule
\* skipped.
ComplianceRules(ev, p, tm_hour) ==
    <<[fires |-> tm_hour < 6 \/ tm_hour > 22,
       finding |-> ComplianceFinding("POL-001", "Working Hours Enforcement",
                      "Actions outside 6AM-10PM require approval",
                      "Medium", 75)],
      [fires |-> /\ ev.severity \in {"High", "Critical"}
                 /\ DOMAIN p \cap ChangeTicketKeys = {},
       finding |-> ComplianceFinding("POL-002", "Change Ticket Required",
                      "High/Critical events must reference a change ticket",
                      "High", 88)],
      [fires |-> /\ \/ IsTruthy(Get(p, "privileged", BoolValue(FALSE)))
                    \/ SudoInAction(p)
                 /\ ~IsTruthy(Get(p, "mfa_present", BoolValue(TRUE))),
       finding |-> ComplianceFinding("POL-003",
                      "MFA Required for Privileged Access",
                      "Sudo/privileged actions require MFA",
                      "Critical", 95)],
      [fires |-> /\ ContainsAny(Lower(StrOf(TargetOf(p))), ProductionKeywords)
                 /\ ~IsTruthy(Get(p, "justification", BoolValue(FALSE))),
       finding |-> ComplianceFinding("POL-004", "Production Access Logging",
                      "Production access must be logged with justification",
                      "Medium", 80)],
      [fires |-> /\ ~ComparisonRaises(Get(p, "mismatch_amount", IntValue(0)))
                 /\ GreaterThan(Get(p, "mismatch_amount", IntValue(0)), 1000),
       finding |-> ComplianceFinding("POL-005", "Financial Threshold Exceeded",
                      "Transactions over $1000 require dual approval",
                      "High", 92)]>>

\* compliance_agent on a state.
compliance_agent(st, tm_hour) ==
    LET ev == st.event[1]
    IN  IF st.event = NoneValue THEN AbsentEventResult("compliance_sentinel")
        ELSE [raises |-> FALSE, error |-> "",
              result |-> CheckerResult("compliance_sentinel",
                            Fired(ComplianceRules(ev, ev.payload, tm_hour)))]

(***************************************************************************)
(* agents/cost.py.                                                         *)
(***************************************************************************)
CostFinding(title, description, severity, confidence) ==
    CheckerFinding("cost_analyst", title, description, severity, confidence)

\* The three conditions of cost_analyst_agent, in order.
CostRules(p) ==
    LET mismatch == Get(p, "mismatch_amount", IntValue(0))
        cost_daily == Get(p, "cost_impact_daily", IntValue(0))
        delta_instances == Get(p, "delta_instances", IntValue(0))
    IN  <<[fires |-> GreaterThan(mismatch, 500),
           finding |-> CostFinding("Reconciliation Mismatch",
                          <<"$", mismatch, " discrepancy detected in financial reconciliation">>,
                          IF GreaterThan(mismatch, 2000) THEN "Critical"
                          ELSE "High", 92)],
          [fires |-> GreaterThan(cost_daily, 500),
           finding |-> CostFinding("Significant Daily Cost Increase",
                          <<"$", cost_daily, "/day additional spend">>,
                          IF GreaterThan(cost_daily, 1000) THEN "High"
                          ELSE "Medium", 85)],
          [fires |-> GreaterThan(delta_instances, 5),
           finding |-> CostFinding("Large Instance Scale-Out",
                          <<"Scaling event added ", delta_instances, " instances">>,
                          "Medium", 75)]>>

\* cost_analyst_agent on a state: the comparisons are not guarded, so the
\* first one on a str raises TypeError out of the checker.
cost_analyst_agent(st) ==
    LET p == st.event[1].payload
    IN  IF st.event = NoneValue THEN AbsentEventResult("cost_analyst")
        ELSE IF \/ ComparisonRaises(Get(p, "mismatch_amount", IntValue(0)))
           \/ ComparisonRaises(Get(p, "cost_impact_daily", IntValue(0)))
           \/ ComparisonRaises(Get(p, "delta_instances", IntValue(0)))
        THEN [raises |-> TRUE,
              error |-> "'>' not supported between instances of 'str' and 'int'",
              result |-> <<>>]
        ELSE [raises |-> FALSE, error |-> "",
              result |-> CheckerResult("cost_analyst", Fired(CostRules(p)))]

(***************************************************************************)
(* agents/resource.py.                                                     *)
(***************************************************************************)
ResourceFinding(title, description, severity, confidence) ==
    CheckerFinding("resource_watcher", title, description, severity,
                   confidence)

UnhealthyStatuses ==
    {<<"u", "n", "h", "e", "a", "l", "t", "h", "y">>,
     <<"d", "e", "g", "r", "a", "d", "e", "d">>,
     <<"c", "r", "i", "t", "i", "c", "a", "l">>, <<"d", "o", "w", "n">>}
DownStatuses == {<<"c", "r", "i", "t", "i", "c", "a", "l">>, <<"d", "o", "w", "n">>}
CpuUtilization ==
    <<"c", "p", "u", "_", "u", "t", "i", "l", "i", "z", "a", "t", "i", "o", "n">>

\* payload.get("metric") == "cpu_utilization".
IsCpuMetric(p) ==
    /\ "metric" \in DOMAIN p
    /\ p.metric.t = "str"
    /\ p.metric.v = CpuUtilization

\* The conditions of resource_watcher_agent, in order; value is compared
\* for the metric cpu_utilization only.
ResourceRules(p) ==
    LET status == Lower(Get(p, "status", StrValue(<<>>)).v)
        is_cpu == IsCpuMetric(p)
        val == Get(p, "value", IntValue(0))
        mem_pct == Get(p, "memory_pct", IntValue(0))
        instance_count == Get(p, "instance_count", IntValue(0))
    IN  <<[fires |-> status \in UnhealthyStatuses,
           finding |-> ResourceFinding("Service Health Issue",
                          <<"Service reported status: ", StrValue(status)>>,
                          IF status \in DownStatuses THEN "Critical"
                          ELSE "High", 95)],
          [fires |-> is_cpu /\ GreaterThan(val, 90),
           finding |-> ResourceFinding("Critical CPU Usage",
                          <<"CPU utilization is at ", val, "% (Threshold: 90%)">>,
                          "Critical", 98)],
          [fires |-> is_cpu /\ ~GreaterThan(val, 90) /\ GreaterThan(val, 75),
           finding |-> ResourceFinding("High CPU Usage",
                          <<"CPU utilization is at ", val, "%">>,
                          "Medium", 85)],
          [fires |-> GreaterThan(mem_pct, 85),
           finding |-> ResourceFinding("High Memory Usage",
                          <<"Memory usage is at ", mem_pct, "%">>,
                          "High", 90)],
          [fires |-> GreaterThan(instance_count, 50),
           finding |-> ResourceFinding("High Instance Count",
                          <<"Service running ", instance_count, " instances">>,
                          "Medium", 70)]>>

\* resource_watcher_agent on a state: status.lower() on a value that is
\* not a str and a comparison on a str are not guarded and raise out of
\* the checker.
resource_watcher_agent(st) ==
    LET p == st.event[1].payload
        is_cpu == IsCpuMetric(p)
    IN  IF st.event = NoneValue THEN AbsentEventResult("resource_watcher")
        ELSE IF Get(p, "status", StrValue(<<>>)).t # "str"
        THEN [raises |-> TRUE,
              error |-> "object has no attribute 'lower'",
              result |-> <<>>]
        ELSE IF \/ is_cpu /\ ComparisonRaises(Get(p, "value", IntValue(0)))
                \/ ComparisonRaises(Get(p, "memory_pct", IntValue(0)))
                \/ ComparisonRaises(Get(p, "instance_count", IntValue(0)))
        THEN [raises |-> TRUE,
              error |-> "'>' not supported between instances of 'str' and 'int'",
              result |-> <<>>]
        ELSE [raises |-> FALSE, error |-> "",
              result |-> CheckerResult("resource_watcher",
                                       Fired(ResourceRules(p)))]

(***************************************************************************)
(* graph/workflow.py: the experts node with the checkers evaluated.        *)
(***************************************************************************)
\* The checkers whose rules are evaluated on the payload; the answers of
\* the others are inputs.
EvaluatedCheckers ==
    {"security_watchdog", "compliance_sentinel", "cost_analyst",
     "resource_watcher"}

\* Local hours of an event's timestamp: at night and by day.
HourInputs == {3, 12}

\* What each registered checker named in names answers on the state st.
CheckerRuns(names, st, history, tm_hour) ==
    {[a \in Range(names) \cap AGENT_REGISTRY |->
         CASE a = "security_watchdog" -> security_watchdog_agent(st, history)
           [] a = "compliance_sentinel" -> compliance_agent(st, tm_hour)
           [] a = "cost_analyst" -> cost_analyst_agent(st)
           [] a = "resource_watcher" -> resource_watcher_agent(st)
           [] OTHER -> IF st.event = NoneValue THEN AbsentEventResult(a)
                       ELSE CheckerOutcome(a, kinds[a])] :
        kinds \in [(Range(names) \cap AGENT_REGISTRY) \ EvaluatedCheckers
                     -> CheckerAnswerKinds]}

\* The graph node experts, each checker called on the state at hand; the
\* answers are recorded in env.
RunCheckers ==
    /\ node = "experts"
    /\ \E history \in HistoryAnswers, tm_hour \in HourInputs :
          \E results \in CheckerRuns(state.agents_to_run, state, history,
                                     tm_hour) :
             /\ update' = run_expert_agents(state, results)
             /\ env' = [env EXCEPT !.results = results,
                                   !.history = history,
                                   !.tm_hour = tm_hour]
    /\ state' = Merge(state, update')
    /\ node' = "insight"
    /\ UNCHANGED calls
    /\ UNCHANGED <<wfVars, concVars, routerVars, svcVars>>

(***************************************************************************)
(* services/workflow.py: detect_workflow_trigger.                          *)
(***************************************************************************)
ChangeKeywords ==
    {<<"d", "e", "p", "l", "o", "y", "m", "e", "n", "t">>,
     <<"c", "h", "a", "n", "g", "e">>,
     <<"r", "e", "l", "e", "a", "s", "e">>}
AccessKeywords ==
    {<<"a", "c", "c", "e", "s", "s">>,
     <<"p", "e", "r", "m", "i", "s", "s", "i", "o", "n">>,
     <<"r", "o", "l", "e">>}
IncidentKeywords ==
    {<<"b", "r", "e", "a", "c", "h">>,
     <<"i", "n", "c", "i", "d", "e", "n", "t">>,
     <<"a", "t", "t", "a", "c", "k">>}

\* A detector that looks at the severity before the event type.
detect_incident_first(ev) ==
    LET event_type == Lower(Get(ev, "event_type", <<>>))
        payload == Get(ev, "payload", <<>>)
        severity == Get(ev, "severity", "Medium")
    IN  IF severity = "Critical" \/ ContainsAny(event_type, IncidentKeywords)
        THEN Some("incident_response")
        ELSE IF ContainsAny(event_type, ChangeKeywords)
        THEN Some("change_approval")
        ELSE IF /\ ContainsAny(event_type, AccessKeywords)
                /\ \/ Get(payload, "privileged", FALSE)
                   \/ severity \in {"High", "Critical"}
        THEN Some("access_review")
        ELSE NoneValue

\* detect_workflow_trigger on an event dict: the workflow type, or None.
detect_workflow_trigger(ev) ==
    LET event_type == Lower(Get(ev, "event_type", <<>>))
        payload == Get(ev, "payload", <<>>)
        severity == Get(ev, "severity", "Medium")
    IN  IF ContainsAny(event_type, ChangeKeywords)
        THEN Some("change_approval")
        ELSE IF /\ ContainsAny(event_type, AccessKeywords)
                /\ \/ Get(payload, "privileged", FALSE)
                   \/ severity \in {"High", "Critical"}
        THEN Some("access_review")
        ELSE IF \/ severity = "Critical"
                \/ ContainsAny(event_type, IncidentKeywords)
        THEN Some("incident_response")
        ELSE NoneValue

\* Event dicts handed to the detector: event types in mixed case holding
\* keywords of one rule, of two rules, and of none; the four severities
\* and a dict without the key; payloads with and without the flag.
TriggerTypeInputs ==
    {<<"D", "e", "p", "l", "o", "y", "m", "e", "n", "t", "F", "a", "i", "l", "e", "d">>,
     <<"r", "e", "l", "e", "a", "s", "e", "_", "c", "u", "t">>,
     <<"A", "c", "c", "e", "s", "s", "G", "r", "a", "n", "t", "e", "d">>,
     <<"r", "o", "l", "e", "_", "a", "s", "s", "i", "g", "n", "e", "d">>,
     <<"p", "e", "r", "m", "i", "s", "s", "i", "o", "n", "_", "c", "h", "a", "n", "g", "e">>,
     <<"D", "a", "t", "a", "B", "r", "e", "a", "c", "h">>,
     <<"a", "c", "c", "e", "s", "s", "_", "a", "t", "t", "a", "c", "k">>,
     <<"i", "n", "c", "i", "d", "e", "n", "t", "_", "r", "e", "l", "e", "a", "s", "e">>,
     <<"d", "i", "s", "k", "_", "f", "u", "l", "l">>,
     <<>>}
TriggerPayloadInputs ==
    {<<>>, [privileged |-> TRUE], [privileged |-> FALSE]}
TriggerEventInputs ==
    [event_type : TriggerTypeInputs, severity : Severity,
     payload : TriggerPayloadInputs]
    \cup [event_type : TriggerTypeInputs, payload : TriggerPayloadInputs]
    \cup [severity : Severity]

\* No call of the detector.
NoTrigger == [event |-> <<>>, called |-> FALSE, returned |-> NoneValue]

\* One call of the detector on the event at hand.
DetectWorkflowTrigger ==
    /\ ~trigger.called
    /\ trigger.event # <<>>
    /\ trigger' = [trigger EXCEPT
                     !.called = TRUE,
                     !.returned = detect_workflow_trigger(trigger.event)]
    /\ UNCHANGED <<wfVars, concVars, routerVars, pipeVars, queueVars, guardVars>>

(***************************************************************************)
(* services/priority.py: EventPriorityQueue, a binary heap in a list.      *)
(* Positions are those of the Python list, from 0.                         *)
(***************************************************************************)
\* Priority: a lower number is a higher priority.
PriorityOf(severity) ==
    CASE severity = "Critical" -> 1
      [] severity = "High" -> 2
      [] severity = "Medium" -> 3
      [] severity = "Low" -> 4
      [] OTHER -> 3

\* PrioritizedEvent.from_event; the order of two items compares their
\* priority only.
from_event(ev) ==
    [priority |-> PriorityOf(Get(ev, "severity", "Medium")), event |-> ev]

\* heap[pos] and the heap with heap[pos] = item.
At(heap, pos) == heap[pos + 1]
Put(heap, pos, item) == [heap EXCEPT ![pos + 1] = item]

\* heapq._siftdown: newitem moves up from pos while it is smaller than
\* its parent.
RECURSIVE SiftDownFrom(_, _, _, _)
SiftDownFrom(heap, startpos, pos, newitem) ==
    IF pos > startpos
       /\ newitem.priority < At(heap, (pos - 1) \div 2).priority
    THEN SiftDownFrom(Put(heap, pos, At(heap, (pos - 1) \div 2)),
                      startpos, (pos - 1) \div 2, newitem)
    ELSE Put(heap, pos, newitem)

siftdown(heap, startpos, pos) ==
    SiftDownFrom(heap, startpos, pos, At(heap, pos))

\* heapq._siftup: the smaller child moves up until a leaf is reached, then
\* newitem is put there and sifted down.
RECURSIVE SiftUpFrom(_, _, _, _)
SiftUpFrom(heap, startpos, pos, newitem) ==
    LET endpos == Len(heap)
        childpos == 2 * pos + 1
        rightpos == childpos + 1
        smaller == IF /\ rightpos < endpos
                      /\ ~(At(heap, childpos).priority
                             < At(heap, rightpos).priority)
                   THEN rightpos ELSE childpos
    IN  IF childpos < endpos
        THEN SiftUpFrom(Put(heap, pos, At(heap, smaller)), startpos,
                        smaller, newitem)
        ELSE siftdown(Put(heap, pos, newitem), startpos, pos)

siftup(heap, pos) == SiftUpFrom(heap, pos, pos, At(heap, pos))

\* A push that appends without restoring the heap order.
heappush_unsifted(heap, item) == Append(heap, item)

\* heapq.heappush.
heappush(heap, item) == siftdown(Append(heap, item), 0, Len(heap))

\* heapq.heappop on a heap that is not empty: the item and the heap left.
heappop(heap) ==
    LET lastelt == heap[Len(heap)]
        rest == SubSeq(heap, 1, Len(heap) - 1)
    IN  IF rest # <<>>
        THEN [item |-> At(rest, 0), heap |-> siftup(Put(rest, 0, lastelt), 0)]
        ELSE [item |-> lastelt, heap |-> rest]

\* heapq.heapreplace: the heap with its first item replaced.
heapreplace(heap, item) == siftup(Put(heap, 0, item), 0)

\* EventPriorityQueue(max_size): the list and the counters.
NewQueue ==
    [queue |-> <<>>, stats |-> [enqueued |-> 0, processed |-> 0, dropped |-> 0]]

\* The last call on the queue, its argument and what it returned; n counts
\* the calls.
NoQueueCall == [n |-> 0, op |-> "none", arg |-> <<>>, returned |-> <<>>]

\* Events handed to the queue: the four severities, an undeclared one and
\* a dict without the key, each event with an id of its own.
QueueSeverityInputs == Severity \cup {"critical"}
QueueEvent(id, severity) == [event_id |-> id, severity |-> severity]

\* A queue of at most MaxSize events, and runs of at most MaxCalls calls.
MaxSize == 4
MaxCalls == 6

\* enqueue(event): on a full queue the new item replaces the first item
\* of the heap when its priority is higher than that of the last item of
\* the list, else it is dropped.
Enqueue(ev) ==
    /\ qcall.n < MaxCalls
    /\ LET q == event_queue.queue
           stats == event_queue.stats
           new_item == from_event(ev)
       IN  IF Len(q) >= MaxSize
           THEN IF q # <<>> /\ new_item.priority < q[Len(q)].priority
                THEN /\ event_queue' =
                          [queue |-> heapreplace(q, new_item),
                           stats |-> [stats EXCEPT !.dropped = @ + 1]]
                     /\ qcall' = [n |-> qcall.n + 1, op |-> "enqueue", arg |-> <<ev>>,
                                  returned |-> <<TRUE>>]
                ELSE /\ event_queue' =
                          [event_queue EXCEPT !.stats.dropped = @ + 1]
                     /\ qcall' = [n |-> qcall.n + 1, op |-> "enqueue", arg |-> <<ev>>,
                                  returned |-> <<FALSE>>]
           ELSE /\ event_queue' =
                     [queue |-> heappush(q, new_item),
                      stats |-> [stats EXCEPT !.enqueued = @ + 1]]
                /\ qcall' = [n |-> qcall.n + 1, op |-> "enqueue", arg |-> <<ev>>,
                             returned |-> <<TRUE>>]
    /\ UNCHANGED <<wfVars, concVars, routerVars, pipeVars, trigVars, guardVars>>

\* dequeue(): None on an empty queue, else the event of the popped item.
Dequeue ==
    /\ qcall.n < MaxCalls
    /\ IF event_queue.queue = <<>>
       THEN /\ qcall' = [n |-> qcall.n + 1, op |-> "dequeue", arg |-> <<>>,
                         returned |-> NoneValue]
            /\ UNCHANGED event_queue
       ELSE LET popped == heappop(event_queue.queue)
            IN  /\ event_queue' =
                      [queue |-> popped.heap,
                       stats |-> [event_queue.stats EXCEPT
                                    !.processed = @ + 1]]
                /\ qcall' = [n |-> qcall.n + 1, op |-> "dequeue", arg |-> <<>>,
                             returned |-> Some(popped.item.event)]
    /\ UNCHANGED <<wfVars, concVars, routerVars, pipeVars, trigVars, guardVars>>

(***************************************************************************)
(* services/guardrails.py: one call of validate_response.                  *)
(***************************************************************************)
NoValidation ==
    [called |-> FALSE, response |-> <<>>, context |-> <<>>,
     strict_mode |-> TRUE, result |-> <<>>]

\* validate_response on the response, context and mode at hand.
ValidateResponse ==
    /\ ~validation.called
    /\ validation.response # <<>>
    /\ validation' = [validation EXCEPT
                        !.called = TRUE,
                        !.result = validate_response(validation.response,
                                                     validation.context,
                                                     validation.strict_mode)]
    /\ UNCHANGED <<wfVars, concVars, routerVars, pipeVars, trigVars, queueVars>>

\* The services are not in use.
ServicesIdle ==
    /\ trigger = NoTrigger
    /\ event_queue = NewQueue
    /\ qcall = NoQueueCall
    /\ validation = NoValidation

\* No pipeline run in progress.
PipelineIdle ==
    /\ state = <<>>
    /\ node = "idle"
    /\ update = <<>>
    /\ env = <<>>
    /\ calls = <<>>

InitWorkflows ==
    /\ db = <<>>
    /\ templates = WORKFLOW_TEMPLATES
    /\ now = 0
    /\ response = ReturnedNone("none")

InitIdle ==
    /\ sessions = <<>>
    /\ event = <<>>
    /\ routed = <<>>
    /\ PipelineIdle
    /\ ServicesIdle

Init == InitWorkflows /\ InitIdle

\* Sequential callers working on the workflow ids ids with the actors actors.
NextOn(ids, actors) ==
    \/ \E workflow_id \in ids, workflow_type \in TypeInputs,
          correlation_id \in CorrelationInputs,
          requester_id \in RequesterInputs :
            CreateWorkflow(workflow_id, workflow_type, correlation_id,
                           requester_id)
    \/ \E workflow_id \in ids, action \in ActionInputs, actor_id \in actors :
            AdvanceWorkflow(workflow_id, action, actor_id)
    \/ \E workflow_id \in ids, reason \in ReasonInputs, actor_id \in actors :
            RejectWorkflow(workflow_id, reason, actor_id)

\* One workflow, every actor.
Next == NextOn({"wf-1"}, Actors)
Spec == Init /\ [][Next]_vars

\* One workflow that is created and advanced only.
NextLifecycle ==
    \/ \E workflow_type \in TypeInputs, correlation_id \in CorrelationInputs,
          requester_id \in RequesterInputs :
            CreateWorkflow("wf-1", workflow_type, correlation_id,
                           requester_id)
    \/ \E action \in ActionInputs, actor_id \in Actors :
            AdvanceWorkflow("wf-1", action, actor_id)
SpecLifecycle == Init /\ [][NextLifecycle]_vars

\* The callers of the admin endpoints: actor_id or "admin".
OperatorInputs == {"admin"}
CommentInputs == {None, "Approved"}
\* The workflow types created there: the shortest template and a name that
\* is not registered.
AdminTypeInputs == {"access_review", "vendor_onboarding"}

\* One workflow under the state machine's calls and the admin endpoints.
NextAdmin ==
    \/ \E workflow_type \in AdminTypeInputs, correlation_id \in CorrelationInputs,
          requester_id \in RequesterInputs :
            CreateWorkflow("wf-1", workflow_type, correlation_id,
                           requester_id)
    \/ \E action \in ActionInputs :
            AdvanceWorkflow("wf-1", action, "system")
    \/ \E actor_id \in OperatorInputs, comment \in CommentInputs :
            ForceAdvanceWorkflow("wf-1", actor_id, comment)
    \/ \E reason \in ReasonInputs : RejectWorkflow("wf-1", reason, None)
    \/ ResetWorkflow("wf-1")
SpecAdmin == Init /\ [][NextAdmin]_vars

\* Several workflows, one actor.
NextStore == NextOn(WorkflowIds, {"system"})
SpecStore == Init /\ [][NextStore]_vars
\* Concurrent advance calls on one workflow: each call passes the action the
\* stored row requires or one it does not.
InitConc ==
    /\ InitWorkflows
    /\ sessions = [c \in Callers |-> SessionIdle]
    /\ event = <<>>
    /\ routed = <<>>
    /\ PipelineIdle
    /\ ServicesIdle

NextConc ==
    \/ \E workflow_type \in TypeInputs, correlation_id \in CorrelationInputs,
          requester_id \in RequesterInputs :
            CreateWorkflow("wf-1", workflow_type, correlation_id,
                           requester_id)
    \/ \E c \in Callers, workflow_id \in {"wf-1"},
          action \in {"wrong_action"} \cup
                     {db[w].steps[db[w].current_step + 1].required_action :
                        w \in {x \in DOMAIN db :
                                 db[x].current_step < Len(db[x].steps)}} :
            AdvanceQuery(c, workflow_id, action, "system")
    \/ \E c \in Callers : AdvanceCommit(c)

SpecConc == InitConc /\ [][NextConc]_vars
\* The router applied to one event after another.
InitRouter ==
    /\ InitWorkflows
    /\ sessions = <<>>
    /\ event \in EventInputs
    /\ routed = NotRouted
    /\ PipelineIdle
    /\ ServicesIdle

NextRouter ==
    \/ \E ev \in EventInputs : Ingest(ev)
    \/ SupervisorAgent

SpecRouter == InitRouter /\ [][NextRouter]_vars
\* The trigger detector applied to one event dict.
InitTrigger ==
    /\ InitWorkflows
    /\ sessions = <<>>
    /\ event = <<>>
    /\ routed = <<>>
    /\ PipelineIdle
    /\ \E ev \in TriggerEventInputs : trigger = [NoTrigger EXCEPT !.event = ev]
    /\ event_queue = NewQueue
    /\ qcall = NoQueueCall
    /\ validation = NoValidation

SpecTrigger == InitTrigger /\ [][DetectWorkflowTrigger]_vars

\* Any sequence of enqueue and dequeue calls on a new queue.
InitQueue ==
    /\ InitWorkflows
    /\ sessions = <<>>
    /\ event = <<>>
    /\ routed = <<>>
    /\ PipelineIdle
    /\ trigger = NoTrigger
    /\ event_queue = NewQueue
    /\ qcall = NoQueueCall
    /\ validation = NoValidation

NextQueue ==
    \/ \E severity \in QueueSeverityInputs :
          Enqueue(QueueEvent(qcall.n + 1, severity))
    \/ Enqueue([event_id |-> qcall.n + 1])
    \/ Dequeue

SpecQueue == InitQueue /\ [][NextQueue]_vars

\* validate_response on a response of up to MaxActions actions (verified
\* by a remediation of the context, not verified, or not a string), with
\* or without a root cause, on a context with or without policies,
\* remediations and findings text, in strict mode or not.
MaxActions == 2
GuardedActionInputs ==
    {<<"Rotate exposed key immediately">>, <<"Notify the repository owner">>}
       \cup NonStringItems
RootCauseInputs ==
    {NoneValue, Some(<<"Hardcoded credential pushed in a commit">>),
     Some(<<"Misconfigured firewall rule">>)}
ResponseInputs ==
    {[summary |-> Some(<<"Credential exposed">>), root_cause |-> root_cause,
      actions |-> actions] :
        root_cause \in RootCauseInputs,
        actions \in UNION {[1..n -> GuardedActionInputs] : n \in 0..MaxActions}}
ContextInputs ==
    {[applicable_policies |-> applicable_policies,
      approved_remediations |-> approved_remediations,
      findings_text |-> findings_text] :
        applicable_policies \in {<<>>, get_policies_for_domain("Security")},
        approved_remediations
           \in {<<>>, get_approved_remediations("Security")},
        findings_text
           \in {<<>>,
                <<"- AWS Key Exposed: credential pattern found in commit">>}}

InitValidate ==
    /\ InitWorkflows
    /\ sessions = <<>>
    /\ event = <<>>
    /\ routed = <<>>
    /\ PipelineIdle
    /\ trigger = NoTrigger
    /\ event_queue = NewQueue
    /\ qcall = NoQueueCall
    /\ \E resp \in ResponseInputs, context \in ContextInputs,
          strict_mode \in BOOLEAN :
          validation = [NoValidation EXCEPT !.response = resp,
                                            !.context = context,
                                            !.strict_mode = strict_mode]

SpecValidate == InitValidate /\ [][ValidateResponse]_vars

\* One run of the pipeline on an event of the ingestion endpoint.
InitPipeline ==
    /\ InitWorkflows
    /\ sessions = <<>>
    /\ event = <<>>
    /\ routed = <<>>
    /\ \E ev \in PipelineEventInputs : state = InitialState(ev)
    /\ node = "normalizer"
    /\ update = <<>>
    /\ env = NoAnswers
    /\ calls = NoCalls
    /\ ServicesIdle

NextPipeline ==
    \/ Normalizer
    \/ Supervisor
    \/ RunExpertAgents
    \/ InsightSynthesizer
    \/ AuditCoordinator

SpecPipeline == InitPipeline /\ [][NextPipeline]_vars

\* The dispatcher on a state whose agents_to_run is any list of up to
\* MaxAgents names, registered or not.
MaxAgents == 2
AgentNameInputs == AGENT_REGISTRY \cup {"unregistered_checker"}
AgentListInputs ==
    UNION {[1..n -> AgentNameInputs] : n \in 0..MaxAgents}

InitDispatch ==
    /\ InitWorkflows
    /\ sessions = <<>>
    /\ event = <<>>
    /\ routed = <<>>
    /\ \E ev \in PipelineEventInputs, agents_to_run \in AgentListInputs :
          /\ ev.event_type = SecretDetected
          /\ ev.severity = "High"
          /\ state = [InitialState(ev) EXCEPT !.agents_to_run = agents_to_run]
    /\ node = "experts"
    /\ update = <<>>
    /\ env = NoAnswers
    /\ calls = NoCalls
    /\ ServicesIdle

SpecDispatch == InitDispatch /\ [][RunExpertAgents]_vars

\* The finalizer on a state whose findings are any list of up to
\* MaxFindings findings with a severity of the enum and a confidence the
\* checkers use.
MaxFindings == 2
ConfidenceInputs == {0, 60, 75, 85, 88, 92, 95, 100}
FindingInputs ==
    {Finding("security_watchdog", "Finding", severity, confidence) :
        severity \in Severity, confidence \in ConfidenceInputs}
FindingsListInputs ==
    UNION {[1..n -> FindingInputs] : n \in 0..MaxFindings}

InitFinalize ==
    /\ InitWorkflows
    /\ sessions = <<>>
    /\ event = <<>>
    /\ routed = <<>>
    /\ \E ev \in PipelineEventInputs, findings \in FindingsListInputs :
          /\ ev.event_type = SecretDetected
          /\ ev.severity = "Low"
          /\ ev.domain = "Security"
          /\ state = [InitialState(ev) EXCEPT !.findings = findings]
    /\ node = "audit"
    /\ update = <<>>
    /\ env = NoAnswers
    /\ calls = NoCalls
    /\ ServicesIdle

SpecFinalize == InitFinalize /\ [][AuditCoordinator]_vars
\* One run of the pipeline with the checkers evaluated on the payload:
\* the SecretDetected event of the simulation and a cost event, with
\* payloads that hold the secret's type only, a key in clear, a change
\* ticket, a privileged command, and values of an unexpected type.
AwsAccessKey ==
    <<"A", "W", "S", "_", "A", "C", "C", "E", "S", "S", "_", "K", "E", "Y">>
AwsKeyInClear ==
    <<"k", "e", "y", "=", "A", "K", "I", "A", "I", "O", "S", "F", "O", "D",
      "N", "N", "7", "E", "X", "A", "M", "P", "L", "E">>
CheckedPayloadInputs ==
    {[secret_type |-> StrValue(AwsAccessKey)],
     [secret_type |-> StrValue(AwsAccessKey), content |-> StrValue(AwsKeyInClear)],
     [secret_type |-> StrValue(AwsAccessKey), content |-> StrValue(Lower(AwsKeyInClear))],
     [secret_type |-> StrValue(AwsAccessKey),
      change_id |-> StrValue(<<"C", "H", "G", "-", "1">>)],
     [action |-> StrValue(<<"S", "u", "d", "o", " ", "r", "m">>),
      mfa_present |-> BoolValue(FALSE),
      username |-> StrValue(<<"a", "l", "i", "c", "e">>)],
     [location |-> IntValue(7),
      target |-> StrValue(<<"p", "r", "o", "d", "-", "d", "b", "-", "1">>)],
     [mismatch_amount |-> StrValue(<<"1", "2", "0", "0">>),
      cost_impact_daily |-> IntValue(1500)],
     [mismatch_amount |-> IntValue(2500), delta_instances |-> IntValue(8)]}
CheckedEventInputs ==
    {StandardizedEvent(event_type, "github", severity, domain, payload) :
        event_type \in {SecretDetected,
                        <<"c", "o", "s", "t", "_", "s", "p", "i", "k", "e">>},
        severity \in {"Medium", "Critical"},
        domain \in {"Security", "Financial"},
        payload \in CheckedPayloadInputs}

InitChecked ==
    /\ InitWorkflows
    /\ sessions = <<>>
    /\ event = <<>>
    /\ routed = <<>>
    /\ \E ev \in CheckedEventInputs : state = InitialState(ev)
    /\ node = "normalizer"
    /\ update = <<>>
    /\ env = NoAnswers
    /\ calls = NoCalls
    /\ ServicesIdle

NextChecked ==
    \/ Normalizer
    \/ Supervisor
    \/ RunCheckers
    \/ InsightSynthesizer
    \/ AuditCoordinator

SpecChecked == InitChecked /\ [][NextChecked]_vars

\* One call of one checker by the dispatcher, on a state whose event is
\* present, with a payload the checker's rules read, or absent.
ResourcePayloadInputs ==
    {[status |-> StrValue(<<"D", "o", "w", "n">>)],
     [status |-> StrValue(<<"d", "e", "g", "r", "a", "d", "e", "d">>),
      memory_pct |-> IntValue(90)],
     [status |-> IntValue(1)],
     [metric |-> StrValue(CpuUtilization), value |-> IntValue(95)],
     [metric |-> StrValue(CpuUtilization), value |-> IntValue(80),
      instance_count |-> IntValue(60)],
     [metric |-> StrValue(CpuUtilization),
      value |-> StrValue(<<"9", "5">>)]}
CalledEventInputs ==
    {StandardizedEvent(<<"c", "o", "s", "t", "_", "s", "p", "i", "k", "e">>,
                       "github", "Critical", "Financial", payload) :
        payload \in CheckedPayloadInputs \cup ResourcePayloadInputs}

InitCalled ==
    /\ InitWorkflows
    /\ sessions = <<>>
    /\ event = <<>>
    /\ routed = <<>>
    /\ \E ev \in CalledEventInputs, name \in AGENT_REGISTRY,
          present \in BOOLEAN :
          state = [InitialState(ev) EXCEPT
                      !.event = IF present THEN @ ELSE NoneValue,
                      !.agents_to_run = <<name>>]
    /\ node = "experts"
    /\ update = <<>>
    /\ env = NoAnswers
    /\ calls = NoCalls
    /\ ServicesIdle

SpecCalled == InitCalled /\ [][RunCheckers]_vars

\* The synthesizer on an event of any domain, reading the state of a run
\* whose checkers reported no finding.
InsightEventInputs ==
    {StandardizedEvent(tp[1], "github", severity, domain, tp[2]) :
        tp \in TypedPayloadInputs, severity \in Severity, domain \in Domain}

InitInsight ==
    /\ InitWorkflows
    /\ sessions = <<>>
    /\ event = <<>>
    /\ routed = <<>>
    /\ \E ev \in InsightEventInputs :
          state = [InitialState(ev) EXCEPT
                      !.agents_to_run = Route(ev),
                      !.agents_completed =
                          <<"normalizer", "supervisor">> \o Route(ev)]
    /\ node = "insight"
    /\ update = <<>>
    /\ env = NoAnswers
    /\ calls = NoCalls
    /\ ServicesIdle

SpecInsight == InitInsight /\ [][InsightSynthesizer]_vars

(***************************************************************************)
(* Properties of the workflow state machine under sequential callers       *)
(* (Spec, SpecStore).                                                      *)
(***************************************************************************)
AnyActor == Actors \cup {"system"}

\* C1: an advance call whose action differs from the required_action of the
\* current step of a workflow that has steps left leaves the whole table as
\* it was (current_step, status, steps, approver_id, updated_at) and returns
\* the workflow without raising; so does any number of such calls.
C1_WrongActionIsNoOp ==
    [][\A w \in WorkflowIds, action \in ActionInputs, actor_id \in AnyActor :
         ( /\ w \in DOMAIN db
           /\ db[w].current_step < Len(db[w].steps)
           /\ db[w].steps[db[w].current_step + 1].required_action # action
           /\ AdvanceWorkflow(w, action, actor_id) )
         => ( /\ db' = db
              /\ response'.outcome = "workflow" )]_vars

\* A wrong-action advance has returned on a workflow that is past its first
\* step and has steps left.
C1_Witness ==
    /\ response = Returned("advance_workflow", FALSE)
    /\ \E w \in DOMAIN db :
         /\ db[w].current_step >= 1
         /\ db[w].current_step < Len(db[w].steps)

\* C2: an advance call with the required_action of the current step stamps
\* that step with the time and the actor, leaves the other steps alone, moves
\* current_step up by one and sets the status to completed when no step is
\* left, to in_progress when the new current step is auto and to
\* awaiting_approval otherwise; a change_approval workflow goes from step 0
\* by submit to (1, in_progress) and by assess to (2, awaiting_approval).
C2_MatchingActionAdvances ==
    [][\A w \in WorkflowIds, action \in ActionInputs, actor_id \in AnyActor :
         ( /\ w \in DOMAIN db
           /\ db[w].current_step < Len(db[w].steps)
           /\ db[w].steps[db[w].current_step + 1].required_action = action
           /\ AdvanceWorkflow(w, action, actor_id) )
         => LET old == db[w]
                new == db'[w]
                k == old.current_step
                template == WORKFLOW_TEMPLATES[old.workflow_type].steps
            IN  /\ new.current_step = k + 1
                /\ DOMAIN new.steps[k + 1] =
                     DOMAIN template[k + 1] \cup
                       {"completed_at", "completed_by"}
                /\ new.steps[k + 1].completed_at = now
                /\ new.steps[k + 1].completed_by = actor_id
                /\ \A i \in DOMAIN old.steps \ {k + 1} :
                     new.steps[i] = old.steps[i]
                /\ new.status =
                     IF k + 1 = Len(template) THEN COMPLETED
                     ELSE IF template[k + 2].auto THEN IN_PROGRESS
                     ELSE AWAITING_APPROVAL
                /\ ( /\ old.workflow_type = "change_approval"
                     /\ k = 0
                     /\ old.status = PENDING )
                     => ( /\ action = "submit"
                          /\ new.current_step = 1
                          /\ new.status = IN_PROGRESS )
                /\ ( /\ old.workflow_type = "change_approval"
                     /\ k = 1
                     /\ old.status = IN_PROGRESS )
                     => ( /\ action = "assess"
                          /\ new.current_step = 2
                          /\ new.status = AWAITING_APPROVAL )]_vars

\* A change_approval workflow has been advanced by submit and assess.
C2_Witness ==
    /\ response = Returned("advance_workflow", TRUE)
    /\ \E w \in DOMAIN db :
         /\ db[w].workflow_type = "change_approval"
         /\ db[w].current_step = 2
         /\ db[w].status = AWAITING_APPROVAL
         /\ db[w].steps[2].completed_by = "alice"

\* C3: an advance call on a workflow whose current_step equals its number of
\* steps, with any action, leaves the table as it was and returns the
\* workflow without failing.
C3_TerminalAdvanceIsNoOp ==
    [][\A w \in WorkflowIds, action \in ActionInputs, actor_id \in AnyActor :
         ( /\ w \in DOMAIN db
           /\ db[w].current_step = Len(db[w].steps)
           /\ AdvanceWorkflow(w, action, actor_id) )
         => ( /\ db' = db
              /\ response'.outcome = "workflow" )]_vars

\* C5: no advance call, with any action and actor, changes the status or the
\* current_step of a workflow whose status is rejected.
C5_RejectedIsTerminal ==
    [][\A w \in WorkflowIds, action \in ActionInputs, actor_id \in AnyActor :
         ( /\ w \in DOMAIN db
           /\ db[w].status = REJECTED
           /\ AdvanceWorkflow(w, action, actor_id) )
         => ( /\ db'[w].status = db[w].status
              /\ db'[w].current_step = db[w].current_step )]_vars

\* C6: a create call with a type that is no key of the template table raises
\* ValueError and leaves the set of stored workflows, and each of them, as
\* it was.
C6_UnknownTypeCreateFails ==
    [][\A w \in WorkflowIds, workflow_type \in TypeInputs,
          correlation_id \in CorrelationInputs,
          requester_id \in RequesterInputs :
         ( /\ workflow_type \notin DOMAIN WORKFLOW_TEMPLATES
           /\ CreateWorkflow(w, workflow_type, correlation_id, requester_id) )
         => ( /\ db' = db
              /\ response' = Raised("create_workflow", "ValueError") )]_vars

\* A create call has raised ValueError with workflows in the table.
C6_Witness ==
    /\ response = Raised("create_workflow", "ValueError")
    /\ Cardinality(DOMAIN db) = 2

\* C7: a create call with a registered type adds exactly one row, under an
\* id no row had, with status pending, current_step 0, no approver and the
\* template's step list with no completion stamp, and leaves the other rows
\* alone; no step of any handler changes the template table.
C7_CreateAddsOneFreshRecord ==
    [][/\ templates = WORKFLOW_TEMPLATES
       /\ templates' = templates
       /\ \A w \in WorkflowIds, workflow_type \in TypeInputs,
             correlation_id \in CorrelationInputs,
             requester_id \in RequesterInputs :
            ( /\ workflow_type \in DOMAIN WORKFLOW_TEMPLATES
              /\ CreateWorkflow(w, workflow_type, correlation_id,
                                requester_id) )
            => ( /\ w \notin DOMAIN db
                 /\ DOMAIN db' = DOMAIN db \cup {w}
                 /\ \A x \in DOMAIN db : db'[x] = db[x]
                 /\ db'[w].workflow_id = w
                 /\ db'[w].workflow_type = workflow_type
                 /\ db'[w].status = PENDING
                 /\ db'[w].current_step = 0
                 /\ db'[w].approver_id = None
                 /\ db'[w].steps = WORKFLOW_TEMPLATES[workflow_type].steps
                 /\ \A i \in DOMAIN db'[w].steps :
                      "completed_at" \notin DOMAIN db'[w].steps[i] )]_vars

\* A second workflow has been created beside one that has advanced.
C7_Witness ==
    /\ response = Returned("create_workflow", TRUE)
    /\ \E w1, w2 \in DOMAIN db :
         /\ w1 # w2
         /\ db[w1].current_step >= 3
         /\ db[w2].current_step = 0
         /\ db[w2].status = PENDING
         /\ db[w2].created_at > db[w1].created_at

(***************************************************************************)
(* Properties of concurrent advance calls (SpecConc).                      *)
(***************************************************************************)
\* C4: at most one advance call succeeds per step of a workflow: a call
\* commits the advance of the step it loaded only while the stored row is
\* still at that step, so a second caller of the same action does not
\* advance the step again.
C4_OneAdvancePerStep ==
    [][\A c \in Callers :
         ( /\ sessions[c].pc = "loaded"
           /\ AdvanceCommit(c)
           /\ response'.committed )
         => \A loaded \in sessions[c].record :
              db[loaded.workflow_id].current_step = loaded.current_step]_vars

(***************************************************************************)
(* Properties of the router (SpecRouter).                                  *)
(***************************************************************************)
Routed == event # NoEvent /\ routed # NotRouted

\* C8: for every present event, whatever its domain, event type and
\* severity strings, the router's agents_to_run is not empty and holds no
\* name twice.
C8_RouterListNonEmptyNoDuplicates ==
    Routed =>
        /\ "agents_to_run" \in routed.keys
        /\ Len(routed.agents_to_run) >= 1
        /\ \A i, j \in DOMAIN routed.agents_to_run :
             i # j => routed.agents_to_run[i] # routed.agents_to_run[j]

\* An event with undeclared domain and severity strings whose type matches
\* three condition groups has been routed.
C8_Witness ==
    /\ Routed
    /\ event = [event_type |-> <<"c", "o", "s", "t", "_", "s", "p", "i", "k", "e">>,
                domain |-> "security", severity |-> "critical"]
    /\ Len(routed.agents_to_run) = 5

\* C9: for every event of severity High or Critical the router's list holds
\* security_watchdog and compliance_sentinel; for domain Infrastructure,
\* type disk_full, severity Critical it holds infrastructure_monitor too.
C9_HighSeverityFullAnalysis ==
    Routed =>
        /\ event.severity \in {"High", "Critical"}
             => {"security_watchdog", "compliance_sentinel"}
                  \subseteq Range(routed.agents_to_run)
        /\ event = [event_type |-> <<"d", "i", "s", "k", "_", "f", "u", "l", "l">>,
                    domain |-> "Infrastructure", severity |-> "Critical"]
             => "infrastructure_monitor" \in Range(routed.agents_to_run)

\* The Critical disk_full event of domain Infrastructure has been routed.
C9_Witness ==
    /\ Routed
    /\ event = [event_type |-> <<"d", "i", "s", "k", "_", "f", "u", "l", "l">>,
                domain |-> "Infrastructure", severity |-> "Critical"]
    /\ routed.agents_to_run =
         <<"infrastructure_monitor", "resource_watcher", "anomaly_detector",
           "security_watchdog", "compliance_sentinel">>

\* C10: for every event of domain Security and severity Low the router's
\* list holds security_watchdog and, after it, compliance_sentinel.
C10_SecurityLowOrder ==
    (Routed /\ event.domain = "Security" /\ event.severity = "Low") =>
        \E i, j \in DOMAIN routed.agents_to_run :
            /\ i < j
            /\ routed.agents_to_run[i] = "security_watchdog"
            /\ routed.agents_to_run[j] = "compliance_sentinel"

\* A Low event of domain Security whose type also matches the financial and
\* cost groups has been routed.
C10_Witness ==
    /\ Routed
    /\ event = [event_type |-> <<"c", "o", "s", "t", "_", "s", "p", "i", "k", "e">>,
                domain |-> "Security", severity |-> "Low"]
    /\ Len(routed.agents_to_run) = 4

(***************************************************************************)
(* Properties of the dispatcher (SpecDispatch).                            *)
(***************************************************************************)
\* C11: dispatcher resilience.  When the checker X raises on its call and
\* the checker Y returns, the dispatch of [X, Y] and that of [Y, X] both
\* complete; the update holds exactly Y's findings and Y's completion, and
\* its audit log holds one error entry naming X and Y's own entry, in the
\* order of the list.
C11_DispatcherResilience ==
    \A X \in AGENT_REGISTRY : \A Y \in AGENT_REGISTRY \ {X} :
        ( /\ node = "insight"
          /\ state.agents_to_run \in {<<X, Y>>, <<Y, X>>}
          /\ env.results[X].raises
          /\ ~env.results[Y].raises )
        => LET error == [step |-> "Agent Error", agent |-> X,
                         error |-> env.results[X].error]
               normal == env.results[Y].result.audit_log
           IN  /\ update.findings = env.results[Y].result.findings
               /\ update.agents_completed = <<Y>>
               /\ Len(normal) = 1
               /\ normal[1].agent = Y
               /\ update.audit_log =
                     IF state.agents_to_run = <<X, Y>>
                     THEN <<error>> \o normal ELSE normal \o <<error>>
               /\ state.findings = update.findings

\* The first checker raised and the second returned its findings.
C11_Witness ==
    /\ node = "insight"
    /\ state.agents_to_run = <<"security_watchdog", "compliance_sentinel">>
    /\ env.results["security_watchdog"].raises
    /\ ~env.results["compliance_sentinel"].raises
    /\ Len(update.findings) = 1
    /\ Len(update.audit_log) = 2

(***************************************************************************)
(* Properties of the finalizer (SpecFinalize).                             *)
(***************************************************************************)
\* The greatest severity_weight * confidence of the findings, in
\* thousandths, with the weights the specification lists; 0 for no finding.
GreatestRisk(findings) ==
    LET weight == [Critical |-> 10, High |-> 8, Medium |-> 5, Low |-> 2]
        risks == {weight[findings[i].severity] * findings[i].confidence :
                    i \in DOMAIN findings}
    IN  IF risks = {} THEN 0
        ELSE CHOOSE r \in risks : \A q \in risks : q <= r

\* C12 as stated: total_risk_score is exactly the greatest
\* severity_weight * confidence of the findings, 0.0 for an empty list,
\* and lies in [0, 1].
C12_ScoreIsGreatestRisk ==
    node = "END" =>
        /\ 10 * update.total_risk_score = GreatestRisk(state.findings)
        /\ update.total_risk_score \in 0..100

\* C12 amended: total_risk_score is the greatest severity_weight *
\* confidence of the findings rounded to two decimals (at most 0.005 away
\* from it), 0.0 for an empty list, and lies in [0, 1].
C12_ScoreIsRoundedGreatestRisk ==
    node = "END" =>
        /\ 10 * update.total_risk_score - GreatestRisk(state.findings)
              \in -5..5
        /\ state.findings = <<>> => update.total_risk_score = 0
        /\ update.total_risk_score \in 0..100
        /\ state.total_risk_score = update.total_risk_score

\* Two findings whose greatest risk, 0.5 * 0.75, is rounded to 0.38.
C12_Witness ==
    /\ node = "END"
    /\ Len(state.findings) = 2
    /\ GreatestRisk(state.findings) = 375
    /\ update.total_risk_score = 38

\* C13: the highest_severity the finalizer returns is the severity of
\* greatest rank (Low < Medium < High < Critical) among the findings,
\* whatever their order, and Low for an empty list.
C13_HighestSeverityIsGreatestRank ==
    node = "END" =>
        LET rank == [Low |-> 1, Medium |-> 2, High |-> 3, Critical |-> 4]
            returned == update.highest_severity[1]
            findings == state.findings
        IN  /\ update.highest_severity # NoneValue
            /\ findings = <<>> => returned = "Low"
            /\ findings # <<>> =>
                  /\ \E i \in DOMAIN findings : findings[i].severity = returned
                  /\ \A i \in DOMAIN findings :
                        rank[findings[i].severity] <= rank[returned]

\* The finding of greatest rank comes first and a lower one last.
C13_Witness ==
    /\ node = "END"
    /\ Len(state.findings) = 2
    /\ state.findings[1].severity = "Critical"
    /\ state.findings[2].severity = "Medium"
    /\ update.highest_severity = <<"Critical">>

(***************************************************************************)
(* Properties of one pipeline run (SpecPipeline).                          *)
(***************************************************************************)
\* s is a prefix of t.
IsPrefix(s, t) == Len(s) <= Len(t) /\ SubSeq(t, 1, Len(s)) = s

\* C14: from one stage of a run to the next, total_risk_score never
\* decreases, and findings and audit_log only grow: the value before the
\* stage is a prefix of the value after it.
C14_StateOnlyGrows ==
    [][(state # <<>> /\ state' # <<>>) =>
          /\ state.total_risk_score <= state'.total_risk_score
          /\ IsPrefix(state.findings, state'.findings)
          /\ IsPrefix(state.audit_log, state'.audit_log)]_vars

\* A finished run whose checkers found something: every stage has added
\* to the audit log and the score has risen from 0.
C14_Witness ==
    /\ node = "END"
    /\ state.total_risk_score > 0
    /\ Len(state.findings) >= 2
    /\ Len(state.audit_log) >= 5
    /\ state.audit_log[1].step = "Normalization"
    /\ state.audit_log[Len(state.audit_log)].step = "Audit Coordination"

\* C15: for an event of severity Low or Medium the synthesizer calls no
\* collaborator (no model call, no request) and reports llm_used = false
\* in rule-based mode, whatever the findings are.
C15_FastPathCallsNothing ==
    [][(node = "insight" /\ state.event[1].severity \in {"Low", "Medium"}) =>
          /\ calls' = calls
          /\ env' = env
          /\ node' = "audit"
          /\ Len(update'.audit_log) = 1
          /\ update'.audit_log[1].llm_used = FALSE
          /\ update'.audit_log[1].mode = "rule_based"
          /\ update'.summary # NoneValue]_vars

\* A Medium event with findings has passed the synthesizer without a call.
C15_Witness ==
    /\ node = "audit"
    /\ state.event[1].severity = "Medium"
    /\ state.findings # <<>>
    /\ calls.call_glm_fast = 0
    /\ calls.post = 0
    /\ update.audit_log[1].llm_used = FALSE

\* The model call of the run was made and yielded no text: the request
\* raised (timeout, transport error) or was answered with another status
\* than 200.
ModelCallFailed ==
    /\ env.key
    /\ env.http.raised # "" \/ env.http.status_code # 200

\* C16: for a High or Critical event whose model call yields no text, the
\* synthesizer reports llm_used = false and returns the summary,
\* root_cause and actions generate_contextual_summary produces for the
\* same event and findings.
C16_FallbackIsRuleBased ==
    (/\ node = "audit"
     /\ state.event[1].severity \in {"High", "Critical"}
     /\ ModelCallFailed) =>
        LET result == generate_contextual_summary(state.event[1],
                                                  state.findings)
        IN  /\ update.audit_log[1].llm_used = FALSE
            /\ update.summary = Some(result.summary)
            /\ update.root_cause = result.root_cause
            /\ update.recommended_actions = result.actions

\* The model's text of the run, when the call returned one that cannot be
\* parsed as a JSON object.
UnparsableText ==
    /\ env.key
    /\ env.http.raised = ""
    /\ env.http.status_code = 200
    /\ env.http.content \in {NoBracesText, MalformedJsonText}

\* C17: for a High or Critical event whose model call returns text that
\* cannot be parsed as a JSON object, the synthesizer reports
\* llm_used = false and returns the rule-based template.
C17_UnparsableFallsBack ==
    (/\ node = "audit"
     /\ state.event[1].severity \in {"High", "Critical"}
     /\ UnparsableText) =>
        /\ update.audit_log[1].llm_used = FALSE
        /\ update.summary
              = Some(generate_contextual_summary(state.event[1],
                                                 state.findings).summary)

\* C18 as stated: for every High or Critical event the synthesizer makes
\* exactly one request to the external model during the run, never zero
\* and never a second one.
C18_ExactlyOneRequest ==
    (/\ node \in {"audit", "END", "raised"}
     /\ state.event[1].severity \in {"High", "Critical"}) =>
        calls.post = 1

\* C18 amended: for every High or Critical event the synthesizer calls
\* call_glm_fast exactly once during the run, and that call posts exactly
\* one request when an API key is configured and none when it is not;
\* nothing is called before the synthesizer stage, and a failure is
\* followed by no second call.
C18_ExactlyOneModelCall ==
    /\ node \in {"normalizer", "supervisor", "experts", "insight"} =>
          calls.call_glm_fast = 0 /\ calls.post = 0
    /\ (/\ node \in {"audit", "END", "raised"}
        /\ state.event[1].severity \in {"High", "Critical"}) =>
          /\ calls.call_glm_fast = 1
          /\ calls.post = IF env.key THEN 1 ELSE 0

\* A Critical event whose one request timed out, at the end of its run.
C18_Witness ==
    /\ node = "END"
    /\ state.event[1].severity = "Critical"
    /\ env.key
    /\ env.http.raised = "TimeoutException"
    /\ calls.call_glm_fast = 1
    /\ calls.post = 1

\* C19: a run propagates no error, whatever the checkers, the model call
\* and the persistence call do, and at the end of the finalizer stage the
\* state holds the findings of the checkers that did not throw, a
\* total_risk_score and a non-null summary.
C19_RunEndsWithStructuredResult ==
    /\ node # "raised"
    /\ node = "END" =>
          /\ state.findings
                = run_expert_agents(state, env.results).findings
          /\ state.total_risk_score \in 0..100
          /\ state.summary # NoneValue

\* C20: when save_audit_entry raises, the finalizer returns the same
\* total_risk_score and highest_severity as on a successful save, with
\* exactly one audit-log entry, whose db_status is the error text and not
\* "saved".
C20_SaveFailureIsRecorded ==
    [][(node = "audit" /\ node' = "END" /\ env'.save # "") =>
          LET saved == audit_coordinator_agent(state, "")
          IN  /\ update'.total_risk_score = saved.total_risk_score
              /\ update'.highest_severity = saved.highest_severity
              /\ Len(update'.audit_log) = 1
              /\ update'.audit_log[1].db_status = <<"error: ", env'.save>>
              /\ update'.audit_log[1].db_status
                    # saved.audit_log[1].db_status
              /\ saved.audit_log[1].db_status = <<"saved">>]_vars

\* A run over findings has ended although the save failed.
C20_Witness ==
    /\ node = "END"
    /\ env.save = "database is locked"
    /\ state.findings # <<>>
    /\ update.total_risk_score > 0
    /\ update.audit_log[1].db_status = <<"error: ", "database is locked">>

(***************************************************************************)
(* Properties of the trigger detector (SpecTrigger).                       *)
(***************************************************************************)
\* C21: the detector returns the result of the first matching rule in the
\* order change_approval (event type holds deployment, change or release),
\* access_review (event type holds access, permission or role, and the
\* payload is flagged privileged or the severity is High or Critical),
\* incident_response (severity Critical, or event type holds breach,
\* incident or attack), and None when no rule matches; the event type is
\* matched in lower case.
C21_FirstMatchingRuleWins ==
    trigger.called =>
        LET ev == trigger.event
            type == Lower(IF "event_type" \in DOMAIN ev
                          THEN ev.event_type ELSE <<>>)
            severity == IF "severity" \in DOMAIN ev
                        THEN ev.severity ELSE "Medium"
            privileged == /\ "payload" \in DOMAIN ev
                          /\ "privileged" \in DOMAIN ev.payload
                          /\ ev.payload.privileged
            Has(word) == \E i \in 1..Len(type) : \E j \in i..Len(type) :
                            SubSeq(type, i, j) = word
            rule1 == \/ Has(<<"d", "e", "p", "l", "o", "y", "m", "e", "n", "t">>)
                     \/ Has(<<"c", "h", "a", "n", "g", "e">>)
                     \/ Has(<<"r", "e", "l", "e", "a", "s", "e">>)
            rule2 == /\ \/ Has(<<"a", "c", "c", "e", "s", "s">>)
                        \/ Has(<<"p", "e", "r", "m", "i", "s", "s", "i", "o", "n">>)
                        \/ Has(<<"r", "o", "l", "e">>)
                     /\ privileged \/ severity \in {"High", "Critical"}
            rule3 == \/ severity = "Critical"
                     \/ Has(<<"b", "r", "e", "a", "c", "h">>)
                     \/ Has(<<"i", "n", "c", "i", "d", "e", "n", "t">>)
                     \/ Has(<<"a", "t", "t", "a", "c", "k">>)
        IN  /\ rule1 => trigger.returned = <<"change_approval">>
            /\ ~rule1 /\ rule2 => trigger.returned = <<"access_review">>
            /\ ~rule1 /\ ~rule2 /\ rule3 =>
                  trigger.returned = <<"incident_response">>
            /\ ~rule1 /\ ~rule2 /\ ~rule3 => trigger.returned = <<>>

\* A Critical deployment event in mixed case has yielded change_approval.
C21_Witness ==
    /\ trigger.called
    /\ "severity" \in DOMAIN trigger.event
    /\ trigger.event.severity = "Critical"
    /\ trigger.event.event_type
          = <<"D", "e", "p", "l", "o", "y", "m", "e", "n", "t", "F", "a", "i", "l", "e", "d">>
    /\ trigger.returned = <<"change_approval">>

(***************************************************************************)
(* Properties of a run with the checkers evaluated (SpecChecked).          *)
(***************************************************************************)
\* The event of the end-to-end example: SecretDetected, Critical,
\* Security, payload {secret_type: 'AWS_ACCESS_KEY'}.
IsExampleEvent(ev) ==
    /\ ev.event_type = SecretDetected
    /\ ev.severity = "Critical"
    /\ ev.domain = "Security"
    /\ DOMAIN ev.payload = {"secret_type"}
    /\ ev.payload.secret_type.v = AwsAccessKey

\* C22: on the example event the router selects security_watchdog and
\* compliance_sentinel, the security checker's AWS-key-pattern rule
\* produces a Critical finding of confidence 0.95, and the finalizer's
\* total_risk_score is 0.95.
C22_ExampleScores95 ==
    (node = "END" /\ IsExampleEvent(state.event[1])) =>
        /\ state.agents_to_run = <<"security_watchdog", "compliance_sentinel">>
        /\ \E i \in DOMAIN state.findings :
              /\ state.findings[i].agent_id = "security_watchdog"
              /\ state.findings[i].severity = "Critical"
              /\ state.findings[i].confidence = 95
        /\ update.total_risk_score = 95

\* C23: a rule of a checker whose evaluation throws contributes no
\* finding, the checker itself does not raise, and the findings of its
\* other rules that match are still returned.
C23_RulesFailOpen ==
    node \in {"insight", "audit", "END", "raised"} =>
        \A a \in DOMAIN env.results \cap EvaluatedCheckers :
            /\ ~env.results[a].raises
            /\ a = "cost_analyst" =>
                  env.results[a].result.findings
                     = Fired(CostRules(state.event[1].payload))

(***************************************************************************)
(* Properties of the dispatcher (SpecDispatch).                            *)
(***************************************************************************)
\* The lists with the same elements as names, each as often, in any order.
Reorderings(names) ==
    {[i \in DOMAIN names |-> names[f[i]]] : f \in Permutations(DOMAIN names)}

\* How often each element occurs in a list.
Occurrences(list) ==
    [x \in Range(list) |-> Cardinality({i \in DOMAIN list : list[i] = x})]

\* C24: for a fixed event and fixed answers of the checkers, dispatching
\* any reordering of agents_to_run yields the same multiset of findings
\* and the same set of agents_completed, hence the same total_risk_score
\* and highest_severity of the finalizer.
C24_CheckerOrderCommutes ==
    node = "insight" =>
        \A names \in Reorderings(state.agents_to_run) :
            LET other == run_expert_agents(
                            [state EXCEPT !.agents_to_run = names],
                            env.results)
            IN  /\ Occurrences(other.findings) = Occurrences(update.findings)
                /\ Range(other.agents_completed)
                      = Range(update.agents_completed)
                /\ TotalRisk(other.findings) = TotalRisk(update.findings)
                /\ HighestSeverity(other.findings, "Low")
                      = HighestSeverity(update.findings, "Low")

\* Two checkers have both returned findings, and the other order of the
\* two gives the findings in another order.
C24_Witness ==
    /\ node = "insight"
    /\ Len(state.agents_to_run) = 2
    /\ state.agents_to_run[1] # state.agents_to_run[2]
    /\ Len(update.findings) >= 2
    /\ \E names \in Reorderings(state.agents_to_run) :
          /\ names # state.agents_to_run
          /\ run_expert_agents([state EXCEPT !.agents_to_run = names],
                               env.results).findings # update.findings

(***************************************************************************)
(* Properties of the priority queue (SpecQueue).                           *)
(***************************************************************************)
\* The rank of an event's severity, 1 for the highest priority; a
\* severity that is missing or not one of the four ranks as Medium.
Rank(ev) ==
    IF "severity" \notin DOMAIN ev THEN 3
    ELSE IF ev.severity = "Critical" THEN 1
    ELSE IF ev.severity = "High" THEN 2
    ELSE IF ev.severity = "Low" THEN 4
    ELSE 3

\* C25: after any sequence of enqueue and dequeue calls, dequeue returns
\* None exactly when the queue is empty, and else an event of the queue
\* whose priority is the highest among the events in the queue, which it
\* removes.
C25_DequeueReturnsHighestPriority ==
    [][(qcall'.n # qcall.n /\ qcall'.op = "dequeue") =>
          LET q == event_queue.queue
              after == event_queue'.queue
          IN  /\ qcall'.returned = NoneValue <=> q = <<>>
              /\ q # <<>> =>
                    /\ \E i \in DOMAIN q : q[i].event = qcall'.returned[1]
                    /\ \A i \in DOMAIN q :
                          Rank(qcall'.returned[1]) <= Rank(q[i].event)
                    /\ Len(after) = Len(q) - 1
                    /\ \A i \in DOMAIN after :
                          after[i].event # qcall'.returned[1]]_vars

\* A Critical event enqueued after three lower ones has been dequeued
\* first.
C25_Witness ==
    /\ qcall.op = "dequeue"
    /\ qcall.returned # NoneValue
    /\ Rank(qcall.returned[1]) = 1
    /\ qcall.returned[1].event_id = 4
    /\ Len(event_queue.queue) = 3
    /\ \A i \in DOMAIN event_queue.queue :
          Rank(event_queue.queue[i].event) > 1

\* C26: at the end of a run started from the endpoint's initial state, the
\* highest_severity of the merged state is the one the audit finalizer
\* computed from the run's findings.
C26_FinalSeverityIsFinalizers ==
    node = "END" =>
        /\ update.highest_severity
              = Some(HighestSeverity(state.findings, "Low"))
        /\ state.highest_severity = update.highest_severity

(***************************************************************************)
(* Properties of the dispatcher's accounting (SpecDispatch).               *)
(***************************************************************************)
\* The findings a call of the checker called name has returned: none for
\* a name outside the registry and for a checker that raised.
ReturnedFindings(name, results) ==
    IF name \in AGENT_REGISTRY /\ ~results[name].raises
    THEN results[name].result.findings
    ELSE <<>>

\* The findings of the first n names of the list, in the list's order.
RECURSIVE FindingsUpTo(_, _, _)
FindingsUpTo(names, results, n) ==
    IF n = 0 THEN <<>>
    ELSE FindingsUpTo(names, results, n - 1)
            \o ReturnedFindings(names[n], results)

\* C27: the dispatcher calls the selected checkers one at a time in the
\* order of agents_to_run, and the findings it returns are the
\* concatenation of the checkers' findings in that order: those of an
\* earlier name come before those of a later one, each checker's own
\* findings in the order it returned them.
C27_FindingsInInvocationOrder ==
    node = "insight" =>
        LET names == state.agents_to_run
            called == SelectSeq(names, LAMBDA name : name \in AGENT_REGISTRY)
        IN  /\ update.findings = FindingsUpTo(names, env.results, Len(names))
            /\ [i \in DOMAIN update.audit_log |-> update.audit_log[i].agent]
                  = called
            /\ state.findings = update.findings

\* A checker with two findings ran before a checker with one, and the
\* other order of the two would have returned another list.
C27_Witness ==
    /\ node = "insight"
    /\ state.agents_to_run = <<"security_watchdog", "compliance_sentinel">>
    /\ Len(update.findings) = 3
    /\ update.findings[1].title = "Unknown IP Location"
    /\ update.findings[2].title = "Unusual Event Frequency"
    /\ update.findings[3].agent_id = "compliance_sentinel"


\* The entries of the audit log that name an agent, in the log's order.
EntriesOf(name, audit_log) ==
    SelectSeq(audit_log, LAMBDA entry : entry.agent = name)

\* C28: for a present event, a name of agents_to_run that is not in the
\* registry adds no finding, no audit-log entry and no agents_completed
\* entry; a registered name adds exactly one audit-log entry each time
\* it is listed, its normal entry or one error entry if it raised, and is
\* in the returned agents_completed if and only if it did not raise.
C28_PerNameAccounting ==
    (node = "insight" /\ state.event # NoneValue) =>
        LET names == state.agents_to_run
            listed(name) == Cardinality({i \in DOMAIN names : names[i] = name})
            registered == SelectSeq(names,
                             LAMBDA name : name \in AGENT_REGISTRY)
        IN  /\ Len(update.audit_log) = Len(registered)
            /\ \A name \in Range(names) :
                  LET entries == EntriesOf(name, update.audit_log)
                      completed == SelectSeq(update.agents_completed,
                                             LAMBDA done : done = name)
                  IN  IF name \notin AGENT_REGISTRY
                      THEN /\ entries = <<>>
                           /\ completed = <<>>
                           /\ \A i \in DOMAIN update.findings :
                                 update.findings[i].agent_id # name
                      ELSE /\ Len(entries) = listed(name)
                           /\ \A i \in DOMAIN entries :
                                 IF env.results[name].raises
                                 THEN entries[i] =
                                         [step |-> "Agent Error",
                                          agent |-> name,
                                          error |-> env.results[name].error]
                                 ELSE /\ entries[i].step # "Agent Error"
                                      /\ <<entries[i]>> =
                                            env.results[name].result.audit_log
                           /\ name \in Range(update.agents_completed)
                                 <=> ~env.results[name].raises
                           /\ ~env.results[name].raises
                                 => Len(completed) = listed(name)

\* An unregistered name was listed before a checker that raised: one
\* error entry, nothing completed.
C28_Witness ==
    /\ node = "insight"
    /\ state.event # NoneValue
    /\ state.agents_to_run = <<"unregistered_checker", "security_watchdog">>
    /\ env.results["security_watchdog"].raises
    /\ Len(update.audit_log) = 1
    /\ update.audit_log[1].step = "Agent Error"
    /\ update.agents_completed = <<>>
    /\ update.findings = <<>>

(***************************************************************************)
(* The router's defaults (SpecRouter).                                     *)
(***************************************************************************)
\* The event's type holds none of the routing keywords.
NoRoutingKeyword(ev) ==
    ~ContainsAny(Lower(get_event_type(ev)),
                 SecurityKeywords \cup FinancialKeywords
                    \cup InfrastructureKeywords \cup CostScalingKeywords)

\* C29: for every event that matches no condition group (its domain is
\* Compliance or Unknown and its type holds no routing keyword) and whose
\* severity is Low or Medium, the router returns exactly security_watchdog,
\* compliance_sentinel, anomaly_detector in this order; an event with an
\* unknown severity string is routed as the same event of severity Medium
\* and one with an unknown domain string as the same event of domain
\* Infrastructure.
C29_RouterFallbackAndDefaults ==
    Routed =>
        LET as_medium == [event EXCEPT !.severity = "Medium"]
            as_infrastructure == [event EXCEPT !.domain = "Infrastructure"]
        IN  /\ ( /\ event.domain \in {"Compliance", "Unknown"}
                 /\ NoRoutingKeyword(event)
                 /\ event.severity \in {"Low", "Medium"} )
                  => routed.agents_to_run =
                        <<"security_watchdog", "compliance_sentinel",
                          "anomaly_detector">>
            /\ event.severity \notin Severity =>
                  /\ routed.agents_to_run
                        = supervisor_agent(as_medium).agents_to_run
                  /\ routed.audit_log[1].severity = "Medium"
                  /\ ( /\ event.domain \in {"Compliance", "Unknown"}
                       /\ NoRoutingKeyword(event) )
                        => routed.agents_to_run =
                              <<"security_watchdog", "compliance_sentinel",
                                "anomaly_detector">>
            /\ event.domain \notin Domain =>
                  /\ routed.agents_to_run
                        = supervisor_agent(as_infrastructure).agents_to_run
                  /\ routed.audit_log[1].domain = "Infrastructure"
                  /\ \E i, j, k \in DOMAIN routed.agents_to_run :
                        /\ i < j
                        /\ j < k
                        /\ routed.agents_to_run[i] = "infrastructure_monitor"
                        /\ routed.agents_to_run[j] = "resource_watcher"
                        /\ routed.agents_to_run[k] = "anomaly_detector"

\* A Low event of domain Unknown whose type holds no routing keyword has
\* been routed to the three default names.
C29_Witness ==
    /\ Routed
    /\ event = [event_type |-> <<"p", "o", "l", "i", "c", "y", "_",
                                 "u", "p", "d", "a", "t", "e">>,
                domain |-> "Unknown", severity |-> "Low"]
    /\ routed.agents_to_run =
          <<"security_watchdog", "compliance_sentinel", "anomaly_detector">>

(***************************************************************************)
(* The order of the stages of a run (SpecPipeline).                        *)
(***************************************************************************)
\* C30: the stages of a run act once each in the order normalizer, router,
\* dispatcher, synthesizer, finalizer: in the final audit_log the
\* Normalization entry comes first, then the Routing entry, then one entry
\* for each selected checker in the order of agents_to_run, then the
\* Insight Synthesis entry and last the Audit Coordination entry; no risk
\* score is set before the finalizer, and the finalizer's score is computed
\* from the findings of all the selected checkers.
C30_StagesRunInOrder ==
    /\ node \notin {"END"} => /\ state.total_risk_score = 0
                              /\ \A i \in DOMAIN state.audit_log :
                                    state.audit_log[i].step
                                       # "Audit Coordination"
    /\ node = "END" =>
          LET log == state.audit_log
              n == Len(log)
              selected == SelectSeq(state.agents_to_run,
                             LAMBDA name : name \in AGENT_REGISTRY)
              found == run_expert_agents(state, env.results).findings
          IN  /\ n = Len(selected) + 4
              /\ log[1].step = "Normalization"
              /\ log[2].step = "Routing"
              /\ \A i \in 1..Len(selected) :
                    /\ log[i + 2].agent = selected[i]
                    /\ log[i + 2].step
                          \in {CheckerStep(selected[i]), "Agent Error"}
              /\ log[n - 1].step = "Insight Synthesis"
              /\ log[n].step = "Audit Coordination"
              /\ state.findings = found
              /\ log[n].findings_count = Len(found)
              /\ log[n].risk_score = TotalRisk(found)
              /\ state.total_risk_score = TotalRisk(found)

\* A run of five checkers, one of which raised, has ended with a score
\* above 0: nine entries in the audit log.
C30_Witness ==
    /\ node = "END"
    /\ Len(state.agents_to_run) = 5
    /\ Len(state.audit_log) = 9
    /\ \E i \in 3..7 : state.audit_log[i].step = "Agent Error"
    /\ state.audit_log[8].step = "Insight Synthesis"
    /\ state.total_risk_score > 0

(***************************************************************************)
(* The result of one checker call (SpecCalled).                            *)
(***************************************************************************)
\* C31: each of the six checkers, on every present event on which it
\* returns, returns exactly one audit-log entry, whose findings_count is
\* the number of findings returned, and agents_completed holding its own
\* id only; on an absent event it returns agents_completed only, with no
\* findings and no audit-log entry.
C31_UniformCheckerResult ==
    node = "insight" =>
        \A name \in DOMAIN env.results :
            LET answer == env.results[name]
                result == answer.result
            IN  ~answer.raises =>
                   /\ result.agents_completed = <<name>>
                   /\ IF state.event # NoneValue
                      THEN /\ DOMAIN result = {"findings", "audit_log",
                                               "agents_completed"}
                           /\ Len(result.audit_log) = 1
                           /\ result.audit_log[1].agent = name
                           /\ result.audit_log[1].findings_count
                                 = Len(result.findings)
                      ELSE /\ DOMAIN result = {"agents_completed"}
                           /\ update.findings = <<>>
                           /\ update.audit_log = <<>>

\* The resource watcher has returned two findings on a present event.
C31_Witness ==
    /\ node = "insight"
    /\ state.event # NoneValue
    /\ state.agents_to_run = <<"resource_watcher">>
    /\ ~env.results["resource_watcher"].raises
    /\ Len(env.results["resource_watcher"].result.findings) = 2
    /\ env.results["resource_watcher"].result.audit_log[1].findings_count = 2

(***************************************************************************)
(* Properties of guardrail validation (SpecValidate).                      *)
(***************************************************************************)
\* C32: validation returns the refusal response if and only if strict
\* mode is on and the context holds no applicable policy; in every other
\* case it returns, the returned actions have the length and order of the
\* input actions, each unchanged or prefixed with '[UNVERIFIED] ', the
\* summary is unchanged, the root cause is unchanged or prefixed with
\* '[INFERENCE] ', and valid is true exactly when no warning was recorded.
C32_ValidationAnnotates ==
    validation.called =>
        LET resp == validation.response
            result == validation.result
            modified == result.modified_response
            refusal == validation.strict_mode
                       /\ validation.context.applicable_policies = <<>>
        IN  /\ result.raised = ""
            /\ (modified = Refusal /\ result.refused) <=> refusal
            /\ ~refusal =>
                  /\ Len(modified.actions) = Len(resp.actions)
                  /\ \A i \in DOMAIN resp.actions :
                        modified.actions[i]
                           \in {resp.actions[i],
                                <<"[UNVERIFIED] ">> \o resp.actions[i]}
                  /\ modified.summary = resp.summary
                  /\ \/ modified.root_cause = resp.root_cause
                     \/ /\ resp.root_cause # NoneValue
                        /\ modified.root_cause
                              = Some(<<"[INFERENCE] ">> \o resp.root_cause[1])
                  /\ result.valid <=> result.warnings = 0
                  /\ result.valid =>
                        /\ modified.actions = resp.actions
                        /\ modified.root_cause = resp.root_cause

(***************************************************************************)
(* Properties of the workflow record's approver and status.                *)
(***************************************************************************)
\* C33: approver_id is set on the first approval action: an advance of a
\* step whose required action is not 'approve' leaves it as it was (unset
\* until then), the first 'approve' advance sets it to the actor of that
\* advance, and a later advance does not overwrite it.
C33_ApproverSetOnFirstApproval ==
    [][\A w \in DOMAIN db \cap DOMAIN db' :
          db'[w].current_step = db[w].current_step + 1 =>
             LET step == db'[w].steps[db[w].current_step + 1]
             IN  IF step.required_action = "approve"
                    /\ db[w].approver_id = None
                 THEN db'[w].approver_id = step.completed_by
                 ELSE db'[w].approver_id = db[w].approver_id]_vars


\* The steps of a record that carry a completion stamp.
Stamped(record) ==
    {i \in DOMAIN record.steps : "completed_at" \in DOMAIN record.steps[i]}

\* C34: after any sequence of create and advance calls on one workflow,
\* 0 <= current_step <= number of steps; the status is pending if and
\* only if current_step = 0, completed if and only if current_step is the
\* number of steps, and otherwise in_progress when the current step is
\* auto and awaiting_approval when it is manual; approved, rejected,
\* escalated and expired never occur; and the stamped steps are exactly
\* those with an index below current_step.
C34_StatusFollowsStepIndex ==
    \A w \in DOMAIN db :
        LET record == db[w]
            n == Len(record.steps)
            current_step == record.current_step
        IN  /\ current_step \in 0..n
            /\ record.status = PENDING <=> current_step = 0
            /\ record.status = COMPLETED <=> current_step = n
            /\ current_step \in 1..(n - 1) =>
                  record.status =
                     IF record.steps[current_step + 1].auto
                     THEN IN_PROGRESS ELSE AWAITING_APPROVAL
            /\ record.status \notin {APPROVED, REJECTED, ESCALATED, EXPIRED}
            /\ Stamped(record) = 1..current_step
            /\ \A i \in Stamped(record) :
                  "completed_by" \in DOMAIN record.steps[i]

\* A change_approval workflow waits at its third step, the manager's
\* approval, with the first two steps stamped.
C34_Witness ==
    /\ "wf-1" \in DOMAIN db
    /\ db["wf-1"].workflow_type = "change_approval"
    /\ db["wf-1"].current_step = 2
    /\ db["wf-1"].status = AWAITING_APPROVAL
    /\ Stamped(db["wf-1"]) = {1, 2}


\* C35: whatever create, advance, forced advance (the advance, approve and
\* unblock endpoints), reject and reset calls were made on a workflow, its
\* current_step lies in 0 .. number of steps, and a workflow whose status is
\* completed has current_step equal to the number of steps.
C35_StepIndexInRange ==
    \A w \in DOMAIN db :
        /\ db[w].current_step \in 0..Len(db[w].steps)
        /\ db[w].status = COMPLETED =>
              db[w].current_step = Len(db[w].steps)


\* C36: reset returns a workflow to its initial state: after a reset,
\* whatever calls came before, the record has current_step 0 and status
\* pending, none of its steps carries a completion stamp or an actor, and it
\* has no approver, like a freshly created workflow of the same type.
C36_ResetRestoresInitialState ==
    (response.op = "reset_workflow" /\ response.committed) =>
        \A w \in DOMAIN db :
            /\ db[w].current_step = 0
            /\ db[w].status = PENDING
            /\ \A i \in DOMAIN db[w].steps :
                  /\ "completed_at" \notin DOMAIN db[w].steps[i]
                  /\ "completed_by" \notin DOMAIN db[w].steps[i]
            /\ db[w].approver_id = None
            /\ db[w].steps = WORKFLOW_TEMPLATES[db[w].workflow_type].steps


\* C37: under any interleaving of concurrent advance calls on one workflow
\* id (each call reads the record, computes and writes the record), the
\* persisted current_step never decreases and never skips a step, and the
\* persisted status is always the one recomputed for the persisted
\* current_step.
C37_ConcurrentAdvancesKeepOrder ==
    [][\A w \in DOMAIN db \cap DOMAIN db' :
          /\ db'[w].current_step \in
                {db[w].current_step, db[w].current_step + 1}
          /\ db'[w].current_step > 0 =>
                db'[w].status = NewStatus(db'[w].steps,
                                          db'[w].current_step)]_vars




\* The events a queue holds.
QueuedEvents(q) == {q[i].event : i \in DOMAIN q}

\* C38: the queue never holds more than max_size events; an enqueue on a
\* full queue of an event whose priority is higher than that of the
\* lowest-priority queued event drops one lowest-priority queued event,
\* admits the new one and returns true; any other enqueue on a full queue
\* returns false and leaves the queue as it was; in both cases no queued
\* event of higher priority than the new event is lost.
C38_FullQueueDropsLowest ==
    [][/\ Len(event_queue'.queue) <= MaxSize
       /\ (/\ qcall'.n # qcall.n
           /\ qcall'.op = "enqueue"
           /\ Len(event_queue.queue) >= MaxSize) =>
             LET before == QueuedEvents(event_queue.queue)
                 after == QueuedEvents(event_queue'.queue)
                 new == qcall'.arg[1]
                 lowest == CHOOSE r \in {Rank(ev) : ev \in before} :
                              \A ev \in before : Rank(ev) <= r
             IN  /\ IF Rank(new) < lowest
                    THEN /\ qcall'.returned = <<TRUE>>
                         /\ \E ev \in before :
                               /\ Rank(ev) = lowest
                               /\ after = (before \ {ev}) \cup {new}
                    ELSE /\ qcall'.returned = <<FALSE>>
                         /\ event_queue'.queue = event_queue.queue
                 /\ \A ev \in before :
                       Rank(ev) < Rank(new) => ev \in after]_vars


(***************************************************************************)
(* The router's names and the dispatcher's registry (SpecRouter).          *)
(***************************************************************************)
\* C39: every checker name the router returns, for any event, is a key of
\* the dispatcher's checker registry, so the dispatcher skips none of the
\* names the router selected.
C39_RoutedNamesAreRegistered ==
    Routed =>
        \A i \in DOMAIN routed.agents_to_run :
            routed.agents_to_run[i] \in AGENT_REGISTRY

\* An event has been routed to all six registered checkers.
C39_Witness ==
    /\ Routed
    /\ Range(routed.agents_to_run) = AGENT_REGISTRY


(***************************************************************************)
(* The strict-mode refusal and the synthesizer (SpecInsight).              *)
(***************************************************************************)
\* C40: the strict-mode refusal is never the synthesizer's output: for
\* every High or Critical event of any domain (Security, Compliance,
\* Financial, Infrastructure, Unknown) the context bundle built for it
\* holds at least one applicable policy, so the guardrail validation does
\* not return the refusal and the summary of the run is never the 'Unable
\* to analyze' refusal text.
C40_NoRefusalFromSynthesizer ==
    LET ev == state.event[1]
    IN  ev.severity \in {"High", "Critical"} =>
           /\ \A similar \in SimilarEventsInputs :
                 build_context_for_event(ev, similar).applicable_policies
                    # <<>>
           /\ state.summary # Refusal.summary
           /\ state.recommended_actions # Refusal.actions
           /\ node = "audit" =>
                 /\ state.summary # NoneValue
                 /\ state.context.guardrails_applied

\* The synthesizer has answered a Critical event of domain Unknown through
\* the guardrails, with the general compliance policies as its bundle.
C40_Witness ==
    /\ node = "audit"
    /\ state.event[1].severity = "Critical"
    /\ state.event[1].domain = "Unknown"
    /\ state.context.guardrails_applied
    /\ state.summary # NoneValue
    /\ get_policies_for_domain("Unknown") = PolicyCache["Compliance"]
=============================================================================
